---- MODULE Spec2Model ----
(***************************************************************************)
(* Two-stage resume review pipeline of services/resume_service.py:         *)
(* text extraction, path selection, prompt construction, the remote model  *)
(* call and the invalid-resume detector.                                    *)
(*                                                                         *)
(* Python strings are sequences of one-character strings.  The two         *)
(* non-ASCII characters the detector mentions are written "e_acute"        *)
(* (U+00E9), "E_ACUTE" (U+00C9) and "rsquo" (U+2019); the backquote is     *)
(* written "backtick" and the ASCII apostrophe "apos".                     *)
(***************************************************************************)
EXTENDS Integers, Sequences, FiniteSets, TLC

(***************************************************************************)
(* Python values                                                           *)
(***************************************************************************)
\* Python None and str values, tagged so that they can be compared.
None == [tag |-> "None", val |-> <<>>]

Str(s) == [tag |-> "str", val |-> s]

\* Truthiness of an Optional[str]: None and "" are falsy.
Truthy(v) == v.tag = "str" /\ v.val # <<>>

Min(a, b) == IF a <= b THEN a ELSE b

\* c repeated n times.
Rep(c, n) == [i \in 1..n |-> c]

(***************************************************************************)
(* Character classes                                                       *)
(***************************************************************************)
LowerLetters ==
    {"a", "b", "c", "d", "e", "f", "g", "h", "i", "j", "k", "l", "m",
     "n", "o", "p", "q", "r", "s", "t", "u", "v", "w", "x", "y", "z",
     "e_acute"}

UpperToLower ==
    [c \in {"A", "B", "C", "D", "E", "F", "G", "H", "I", "J", "K", "L", "M",
            "N", "O", "P", "Q", "R", "S", "T", "U", "V", "W", "X", "Y", "Z",
            "E_ACUTE"} |->
        CASE c = "A" -> "a" [] c = "B" -> "b" [] c = "C" -> "c"
          [] c = "D" -> "d" [] c = "E" -> "e" [] c = "F" -> "f"
          [] c = "G" -> "g" [] c = "H" -> "h" [] c = "I" -> "i"
          [] c = "J" -> "j" [] c = "K" -> "k" [] c = "L" -> "l"
          [] c = "M" -> "m" [] c = "N" -> "n" [] c = "O" -> "o"
          [] c = "P" -> "p" [] c = "Q" -> "q" [] c = "R" -> "r"
          [] c = "S" -> "s" [] c = "T" -> "t" [] c = "U" -> "u"
          [] c = "V" -> "v" [] c = "W" -> "w" [] c = "X" -> "x"
          [] c = "Y" -> "y" [] c = "Z" -> "z" [] c = "E_ACUTE" -> "e_acute"]

UpperLetters == DOMAIN UpperToLower

Digits == {"0", "1", "2", "3", "4", "5", "6", "7", "8", "9"}

\* Characters str.strip() removes and the regex class \s matches.
IsSpace(c) == c \in {" ", "\t", "\n", "\r"}

\* The regex class \w (Unicode letters, digits and the underscore).
IsWord(c) == c \in LowerLetters \cup UpperLetters \cup Digits \cup {"_"}

(***************************************************************************)
(* str methods                                                             *)
(***************************************************************************)
\* str.lower()
Lower(s) == [i \in 1..Len(s) |-> IF s[i] \in UpperLetters THEN UpperToLower[s[i]] ELSE s[i]]

\* Least element of a non-empty set of integers.
MinOf(S) == CHOOSE k \in S : \A m \in S : k <= m

\* Greatest element of a non-empty set of integers.
MaxOf(S) == CHOOSE k \in S : \A m \in S : m <= k

\* str.lstrip(chars)
LStripSet(s, cs) ==
    LET S == {k \in 1..Len(s) : s[k] \notin cs}
    IN  IF S = {} THEN <<>> ELSE SubSeq(s, MinOf(S), Len(s))

\* str.rstrip(chars)
RStripSet(s, cs) ==
    LET S == {k \in 1..Len(s) : s[k] \notin cs}
    IN  IF S = {} THEN <<>> ELSE SubSeq(s, 1, MaxOf(S))

\* str.strip(chars)
StripChars(s, cs) == RStripSet(LStripSet(s, cs), cs)

\* str.strip()
Strip(s) == StripChars(s, {" ", "\t", "\n", "\r"})

\* str.startswith(p)
StartsWith(s, p) == Len(s) >= Len(p) /\ SubSeq(s, 1, Len(p)) = p

\* str.endswith(p)
EndsWith(s, p) == Len(s) >= Len(p) /\ SubSeq(s, Len(s) - Len(p) + 1, Len(s)) = p

\* p occurs in s at index i.
MatchAt(s, p, i) == i + Len(p) - 1 <= Len(s) /\ SubSeq(s, i, i + Len(p) - 1) = p

\* The Python expression  p in s.
Contains(s, p) == \E i \in 1..(Len(s) + 1) : MatchAt(s, p, i)

\* sep.join(parts)
RECURSIVE Join(_, _)
Join(sep, parts) ==
    IF parts = <<>> THEN <<>>
    ELSE IF Len(parts) = 1 THEN parts[1]
    ELSE parts[1] \o sep \o Join(sep, Tail(parts))

\* First index j >= i with s[j] \in cs (Len(s) + 1 when there is none).
NextIn(s, i, cs) ==
    LET S == {k \in i..Len(s) : s[k] \in cs}
    IN  IF S = {} THEN Len(s) + 1 ELSE MinOf(S)

\* str.splitlines(): lines end at "\n", "\r" or "\r\n"; a trailing line
\* break does not open a last empty line.
RECURSIVE SplitLinesFrom(_, _)
SplitLinesFrom(s, i) ==
    IF i > Len(s) THEN <<>>
    ELSE LET j == NextIn(s, i, {"\n", "\r"})
             line == SubSeq(s, i, j - 1)
         IN  IF j > Len(s) THEN <<line>>
             ELSE IF s[j] = "\r" /\ j < Len(s) /\ s[j + 1] = "\n"
                  THEN <<line>> \o SplitLinesFrom(s, j + 2)
             ELSE <<line>> \o SplitLinesFrom(s, j + 1)

SplitLines(s) == SplitLinesFrom(s, 1)

(***************************************************************************)
(* Regular-expression helpers                                              *)
(***************************************************************************)
\* First index j >= i with s[j] \notin cs (Len(s) + 1 when there is none):
\* the end of a greedy character-class run that starts at i.
RunEnd(s, i, cs) ==
    LET S == {k \in i..Len(s) : s[k] \notin cs}
    IN  IF S = {} THEN Len(s) + 1 ELSE MinOf(S)

SpaceChars == {" ", "\t", "\n", "\r"}

\* re.sub(r"[ \t]+", " ", s), from index i on.
RECURSIVE SubHorizontalRuns(_, _)
SubHorizontalRuns(s, i) ==
    LET j == NextIn(s, i, {" ", "\t"})
    IN  IF j > Len(s) THEN SubSeq(s, i, Len(s))
        ELSE SubSeq(s, i, j - 1) \o <<" ">>
             \o SubHorizontalRuns(s, RunEnd(s, j, {" ", "\t"}))

\* re.sub(r"\n\s*\n", "\n\n", s), from index i on: leftmost matches, \s*
\* greedy, so a match that starts at a newline runs to the last newline of
\* the whitespace run that follows it.
RECURSIVE SubBlankLines(_, _)
RECURSIVE SubBlankLines_FirstNewline(_, _)
\* SubBlankLines whose match stops at the first newline of the whitespace run
\* instead of the last.
SubBlankLines_FirstNewline(s, i) ==
    LET j == NextIn(s, i, {"\n"})
    IN  IF j > Len(s) THEN SubSeq(s, i, Len(s))
        ELSE LET e == RunEnd(s, j + 1, SpaceChars)
                 nl == {k \in (j + 1)..(e - 1) : s[k] = "\n"}
             IN  IF nl # {}
                 THEN SubSeq(s, i, j - 1) \o <<"\n", "\n">>
                          \o SubBlankLines_FirstNewline(s, MinOf(nl) + 1)
                 ELSE SubSeq(s, i, j) \o SubBlankLines_FirstNewline(s, j + 1)

SubBlankLines(s, i) ==
    LET j == NextIn(s, i, {"\n"})
    IN  IF j > Len(s) THEN SubSeq(s, i, Len(s))
        ELSE LET e == RunEnd(s, j + 1, SpaceChars)
                 nl == {k \in (j + 1)..(e - 1) : s[k] = "\n"}
             IN  IF nl # {}
                 THEN SubSeq(s, i, j - 1) \o <<"\n", "\n">> \o SubBlankLines(s, MaxOf(nl) + 1)
                 ELSE SubSeq(s, i, j) \o SubBlankLines(s, j + 1)

\* re.sub(r"\s+", " ", s), from index i on.
RECURSIVE SubSpaceRuns(_, _)
SubSpaceRuns(s, i) ==
    LET j == NextIn(s, i, SpaceChars)
    IN  IF j > Len(s) THEN SubSeq(s, i, Len(s))
        ELSE SubSeq(s, i, j - 1) \o <<" ">> \o SubSpaceRuns(s, RunEnd(s, j, SpaceChars))

\* The regex assertion \b between s[j - 1] and s[j].
BoundaryAt(s, j) ==
    (j - 1 >= 1 /\ IsWord(s[j - 1])) # (j <= Len(s) /\ IsWord(s[j]))

\* A pattern  \b w1 \s+ w2 \s+ ... wn \b  is the sequence <<A1, ..., An>> of
\* the sets Ak of spellings that wk admits.  The words start with a
\* non-space character, so the greedy \s+ between two words takes the whole
\* whitespace run.
RECURSIVE MatchWords(_, _, _)
MatchWords(s, pat, i) ==
    \E w \in pat[1] :
        /\ MatchAt(s, w, i)
        /\ LET j == i + Len(w)
           IN  IF Len(pat) = 1 THEN BoundaryAt(s, j)
               ELSE /\ j <= Len(s)
                    /\ IsSpace(s[j])
                    /\ MatchWords(s, Tail(pat), RunEnd(s, j, SpaceChars))

\* re.search(pat, s)
Search(pat, s) == \E i \in 1..Len(s) : BoundaryAt(s, i) /\ MatchWords(s, pat, i)

(***************************************************************************)
(* Module constants                                                        *)
(***************************************************************************)
INVALID_RESUME_SENTINEL ==
    <<"T", "h", "e", " ", "p", "r", "o", "v", "i", "d", "e", "d", " ", "r",
      "e", "s", "u", "m", "e", " ", "i", "s", " ", "I", "N", "V", "A", "L",
      "I", "D", ".", " ", "P", "l", "e", "a", "s", "e", " ", "p", "r", "o",
      "v", "i", "d", "e", " ", "a", " ", "v", "a", "l", "i", "d", " ", "r",
      "e", "s", "u", "m", "e", " ", "f", "o", "r", " ", "r", "e", "v", "i",
      "e", "w", ".">>

MIN_EXTRACTED_TEXT_CHARS == 50

MAX_TEXT_CHARS_FOR_LLM == 15000

model_name == "google/gemma-3-27b-it"

TRUNCATION_MARKER ==
    <<"\n", "\n", "[", "T", "R", "U", "N", "C", "A", "T", "E", "D", ":",
      " ", "r", "e", "s", "u", "m", "e", " ", "t", "e", "x", "t", " ", "e",
      "x", "c", "e", "e", "d", "e", "d", " ", "m", "a", "x", " ", "l", "e",
      "n", "g", "t", "h", "]">>

\* The backquote character.
BACKTICK == "backtick"

FENCE == <<BACKTICK, BACKTICK, BACKTICK>>

(***************************************************************************)
(* Words of the phrases and patterns of the detector                           *)
(***************************************************************************)
W_not == <<"n", "o", "t">>

W_a == <<"a">>

W_resume == <<"r", "e", "s", "u", "m", "e">>

W_isnt == <<"i", "s", "n", "t">>

W_this == <<"t", "h", "i", "s">>

W_document == <<"d", "o", "c", "u", "m", "e", "n", "t">>

W_is == <<"i", "s">>

W_actually == <<"a", "c", "t", "u", "a", "l", "l", "y">>

W_demonstrably == <<"d", "e", "m", "o", "n", "s", "t", "r", "a", "b", "l", "y">>

W_command == <<"c", "o", "m", "m", "a", "n", "d">>

W_reference == <<"r", "e", "f", "e", "r", "e", "n", "c", "e">>

W_technical == <<"t", "e", "c", "h", "n", "i", "c", "a", "l">>

W_manual == <<"m", "a", "n", "u", "a", "l">>

W_guide == <<"g", "u", "i", "d", "e">>

W_table == <<"t", "a", "b", "l", "e">>

W_of == <<"o", "f">>

W_contents == <<"c", "o", "n", "t", "e", "n", "t", "s">>

W_documentation == <<"d", "o", "c", "u", "m", "e", "n", "t", "a", "t", "i", "o", "n">>

W_suitable == <<"s", "u", "i", "t", "a", "b", "l", "e">>

W_as == <<"a", "s">>

W_job == <<"j", "o", "b">>

W_application == <<"a", "p", "p", "l", "i", "c", "a", "t", "i", "o", "n">>

W_immediately == <<"i", "m", "m", "e", "d", "i", "a", "t", "e", "l", "y">>

W_disqualifying == <<"d", "i", "s", "q", "u", "a", "l", "i", "f", "y", "i", "n", "g">>

W_resume_acute == <<"r", "e", "s", "u", "m", "e_acute">>

W_isn_apos_t == <<"i", "s", "n", "apos", "t">>

W_isn_rsquo_t == <<"i", "s", "n", "rsquo", "t">>

P_not_a_resume ==
    <<"n", "o", "t", " ", "a", " ", "r", "e", "s", "u", "m", "e">>

P_not_a_resume_acute ==
    <<"n", "o", "t", " ", "a", " ", "r", "e", "s", "u", "m", "e_acute">>

P_not_a_resume_acute2 ==
    <<"n", "o", "t", " ", "a", " ", "r", "e_acute", "s", "u", "m", "e_acute">>

P_not_suitable ==
    <<"n", "o", "t", " ", "s", "u", "i", "t", "a", "b", "l", "e", " ", "a",
      "s", " ", "a", " ", "j", "o", "b", " ", "a", "p", "p", "l", "i", "c",
      "a", "t", "i", "o", "n">>
(***************************************************************************)
(* Exceptions                                                              *)
(***************************************************************************)
\* The result of an expression that raised exception e.
Raise(e) == [tag |-> "raise", val |-> <<e>>]

NoExc == "NoExc"

InvalidResumeError == "InvalidResumeError"

(***************************************************************************)
(* ResumeReviewService: pure methods                                       *)
(***************************************************************************)
\* _clean_text
_clean_text(text) ==
    IF text = <<>> THEN <<>>
    ELSE Strip(SubBlankLines(SubHorizontalRuns(text, 1), 1))

\* A text block of a page is [x0, y0, text]: fields 0, 1 and 4 of the tuples
\* that page.get_text("blocks") yields.
BlockKeyLeq(a, b) == a.y0 < b.y0 \/ (a.y0 = b.y0 /\ a.x0 <= b.x0)

\* list.sort(key=lambda b: (b[1], b[0])): stable, ascending.
RECURSIVE SortBlocks(_)
SortBlocks(blocks) ==
    IF blocks = <<>> THEN <<>>
    ELSE LET n == Len(blocks)
             front == SortBlocks(SubSeq(blocks, 1, n - 1))
             b == blocks[n]
             k == Cardinality({i \in 1..Len(front) : BlockKeyLeq(front[i], b)})
         IN  SubSeq(front, 1, k) \o <<b>> \o SubSeq(front, k + 1, Len(front))

\* full_text_parts after the loops over the pages and their sorted blocks.
RECURSIVE FullTextParts(_)
FullTextParts(pages) ==
    IF pages = <<>> THEN <<>>
    ELSE LET blocks == SortBlocks(Head(pages))
         IN  [i \in 1..Len(blocks) |-> blocks[i].text] \o FullTextParts(Tail(pages))

\* The body of the try block of _extract_text_standard: fitz.open raises
\* on a file it cannot read.
ExtractTry(doc) ==
    IF ~doc.openable THEN Raise("FileDataError")
    ELSE LET cleaned_text == _clean_text(Join(<<"\n">>, FullTextParts(doc.pages)))
         IN  IF Strip(cleaned_text) # <<>> THEN Str(cleaned_text) ELSE None

\* _extract_text_standard without its except clause.
_extract_text_standard_Propagates(fitz_module, doc) ==
    IF fitz_module = "None" THEN None
    ELSE ExtractTry(doc)

\* _extract_text_standard: None without PyMuPDF, None on any exception.
_extract_text_standard(fitz_module, doc) ==
    IF fitz_module = "None" THEN None
    ELSE LET r == ExtractTry(doc)
         IN  IF r.tag = "raise" THEN None ELSE r

\* _truncate_for_llm
\* _truncate_for_llm that also cuts a text of exactly the budget.
_truncate_for_llm_CutsAtBudget(text) ==
    IF Len(text) < MAX_TEXT_CHARS_FOR_LLM THEN text
    ELSE SubSeq(text, 1, MAX_TEXT_CHARS_FOR_LLM) \o TRUNCATION_MARKER

_truncate_for_llm(text) ==
    IF Len(text) <= MAX_TEXT_CHARS_FOR_LLM THEN text
    ELSE SubSeq(text, 1, MAX_TEXT_CHARS_FOR_LLM) \o TRUNCATION_MARKER

\* _strip_code_fences that also trims backquotes from a text that is not
\* enclosed in fences.
_strip_code_fences_StripsStray(text) ==
    LET stripped == Strip(text)
    IN  IF StartsWith(stripped, FENCE) /\ EndsWith(stripped, FENCE)
        THEN LET lines == SplitLines(stripped)
             IN  IF Len(lines) >= 2 /\ StartsWith(lines[1], FENCE)
                 THEN Strip(Join(<<"\n">>, SubSeq(lines, 2, Len(lines) - 1)))
                 ELSE Strip(StripChars(stripped, {BACKTICK}))
        ELSE StripChars(stripped, {BACKTICK})

\* _strip_code_fences
_strip_code_fences(text) ==
    LET stripped == Strip(text)
    IN  IF StartsWith(stripped, FENCE) /\ EndsWith(stripped, FENCE)
        THEN LET lines == SplitLines(stripped)
             IN  IF Len(lines) >= 2 /\ StartsWith(lines[1], FENCE)
                 THEN Strip(Join(<<"\n">>, SubSeq(lines, 2, Len(lines) - 1)))
                 ELSE Strip(StripChars(stripped, {BACKTICK}))
        ELSE stripped

\* _normalize_llm_text: takes an Optional[str], gives a str.
_normalize_llm_text(text) ==
    IF ~Truthy(text) THEN <<>>
    ELSE Strip(_strip_code_fences(text.val))

Resume == {W_resume, W_resume_acute}

\* patterns without the document types that are not resumes.
patterns_NoDocumentTypes ==
    << <<{W_not}, {W_a}, Resume>>,
       <<{W_isn_apos_t, W_isn_rsquo_t, W_isnt}, {W_a}, Resume>>,
       <<{W_this}, {W_document}, {W_is}, {W_not}, {W_a}, Resume>>,
       <<{W_this}, {W_is}, {W_not}, {W_a}, Resume>>,
       <<{W_not}, {W_actually}, {W_a}, Resume>>,
       <<{W_demonstrably}, {W_not}, {W_a}, Resume>>,
       <<{W_not}, {W_suitable}, {W_as}, {W_a}, {W_job}, {W_application}>>,
       <<{W_not}, {W_suitable}, {W_as}, {W_job}, {W_application}>>,
       <<{W_immediately}, {W_disqualifying}>> >>

\* The list patterns of _is_invalid_resume_response, an optional group
\* written as the two patterns it stands for.
patterns ==
    << <<{W_not}, {W_a}, Resume>>,
       <<{W_isn_apos_t, W_isn_rsquo_t, W_isnt}, {W_a}, Resume>>,
       <<{W_this}, {W_document}, {W_is}, {W_not}, {W_a}, Resume>>,
       <<{W_this}, {W_is}, {W_not}, {W_a}, Resume>>,
       <<{W_not}, {W_actually}, {W_a}, Resume>>,
       <<{W_demonstrably}, {W_not}, {W_a}, Resume>>,
       <<{W_command}, {W_reference}>>,
       <<{W_technical}, {W_manual}>>,
       <<{W_technical}, {W_guide}>>,
       <<{W_table}, {W_of}, {W_contents}>>,
       <<{W_documentation}>>,
       <<{W_not}, {W_suitable}, {W_as}, {W_a}, {W_job}, {W_application}>>,
       <<{W_not}, {W_suitable}, {W_as}, {W_job}, {W_application}>>,
       <<{W_immediately}, {W_disqualifying}>> >>

\* _is_invalid_resume_response
_is_invalid_resume_response(response_text) ==
    LET normalized == _normalize_llm_text(response_text)
        lowered == Lower(normalized)
        condensed == Strip(SubSpaceRuns(lowered, 1))
    IN  IF normalized = <<>> THEN FALSE
        ELSE IF normalized = INVALID_RESUME_SENTINEL THEN TRUE
        ELSE IF Contains(Lower(normalized), Lower(INVALID_RESUME_SENTINEL)) THEN TRUE
        ELSE IF \/ Contains(condensed, P_not_a_resume)
                \/ Contains(condensed, P_not_a_resume_acute)
                \/ Contains(condensed, P_not_a_resume_acute2)
             THEN TRUE
        ELSE IF Contains(condensed, P_not_suitable) THEN TRUE
        ELSE \E k \in 1..Len(patterns) : Search(patterns[k], lowered)

(***************************************************************************)
(* CLI_Benchmarking/invalid_resume_detector.py                             *)
(***************************************************************************)
CLI_INVALID_RESUME_SENTINEL ==
    <<"T", "h", "e", " ", "p", "r", "o", "v", "i", "d", "e", "d", " ", "r",
      "e", "s", "u", "m", "e", " ", "i", "s", " ", "I", "N", "V", "A", "L",
      "I", "D", ".", " ", "P", "l", "e", "a", "s", "e", " ", "p", "r", "o",
      "v", "i", "d", "e", " ", "a", " ", "v", "a", "l", "i", "d", " ", "r",
      "e", "s", "u", "m", "e", " ", "f", "o", "r", " ", "r", "e", "v", "i",
      "e", "w", ".">>

\* _strip_code_fences of the benchmarking module.
cli_strip_code_fences(text) ==
    LET stripped == Strip(text)
    IN  IF StartsWith(stripped, FENCE) /\ EndsWith(stripped, FENCE)
        THEN LET lines == SplitLines(stripped)
             IN  IF Len(lines) >= 2 /\ StartsWith(lines[1], FENCE)
                 THEN Strip(Join(<<"\n">>, SubSeq(lines, 2, Len(lines) - 1)))
                 ELSE Strip(StripChars(stripped, {BACKTICK}))
        ELSE stripped

\* normalize_llm_text
normalize_llm_text(text) ==
    IF ~Truthy(text) THEN <<>>
    ELSE Strip(cli_strip_code_fences(text.val))

\* The list patterns of is_invalid_resume_response.
cli_patterns ==
    << <<{W_not}, {W_a}, {W_resume}>>,
       <<{W_isn_apos_t, W_isn_rsquo_t, W_isnt}, {W_a}, {W_resume}>>,
       <<{W_this}, {W_is}, {W_not}, {W_a}, {W_resume}>>,
       <<{W_not}, {W_actually}, {W_a}, {W_resume}>>,
       <<{W_command}, {W_reference}>>,
       <<{W_technical}, {W_manual}>>,
       <<{W_documentation}>> >>

\* is_invalid_resume_response
is_invalid_resume_response(text) ==
    LET normalized == normalize_llm_text(text)
        lowered == Lower(normalized)
    IN  IF normalized = <<>> THEN FALSE
        ELSE IF normalized = CLI_INVALID_RESUME_SENTINEL THEN TRUE
        ELSE IF Contains(Lower(normalized), Lower(CLI_INVALID_RESUME_SENTINEL)) THEN TRUE
        ELSE \E k \in 1..Len(cli_patterns) : Search(cli_patterns[k], lowered)

(***************************************************************************)
(* Prompts and payloads                                                    *)
(***************************************************************************)
TEXT_INSTRUCTION ==
    <<"P", "l", "e", "a", "s", "e", " ", "r", "e", "v", "i", "e", "w", " ",
      "t", "h", "i", "s", " ", "r", "e", "s", "u", "m", "e", " ", "b", "a",
      "s", "e", "d", " ", "o", "n", " ", "t", "h", "e", " ", "e", "x", "t",
      "r", "a", "c", "t", "e", "d", " ", "t", "e", "x", "t", " ", "b", "e",
      "l", "o", "w", ".", " ", "F", "o", "c", "u", "s", " ", "o", "n", " ",
      "c", "o", "n", "t", "e", "n", "t", " ", "i", "m", "p", "a", "c", "t",
      ",", " ", "c", "l", "a", "r", "i", "t", "y", ",", " ", "a", "n", "d",
      " ", "A", "T", "S", " ", "k", "e", "y", "w", "o", "r", "d", " ", "s",
      "t", "r", "a", "t", "e", "g", "y", ".">>

IMAGE_INSTRUCTION ==
    <<"P", "l", "e", "a", "s", "e", " ", "r", "e", "v", "i", "e", "w", " ",
      "t", "h", "e", " ", "a", "t", "t", "a", "c", "h", "e", "d", " ", "r",
      "e", "s", "u", "m", "e", ".", " ", "F", "o", "c", "u", "s", " ", "o",
      "n", " ", "v", "i", "s", "u", "a", "l", " ", "l", "a", "y", "o", "u",
      "t", ",", " ", "f", "o", "r", "m", "a", "t", "t", "i", "n", "g", ",",
      " ", "a", "n", "d", " ", "c", "o", "n", "t", "e", "n", "t", ".">>

RESUME_TEXT_HEADER ==
    <<"R", "E", "S", "U", "M", "E", " ", "T", "E", "X", "T", "\n", "\n">>

DATA_URL_PREFIX ==
    <<"d", "a", "t", "a", ":", "i", "m", "a", "g", "e", "/", "j", "p", "e",
      "g", ";", "b", "a", "s", "e", "6", "4", ",">>

\* A payload item {"type": "text", "text": t}.
TextItem(t) == [type |-> "text", text |-> t]

\* _encode_image: the base64 text of the JPEG encoding of a page image.
_encode_image(image) == <<"base64", "JPEG", image.page>>

\* A payload item {"type": "image_url", "image_url": {"url": ...}}.
ImageItem(image) ==
    [type |-> "image_url", image_url |-> [url |-> <<DATA_URL_PREFIX, _encode_image(image)>>]]

\* content_payload of the text path.
TextPayload(extracted_text) ==
    <<TextItem(TEXT_INSTRUCTION),
      TextItem(RESUME_TEXT_HEADER \o _truncate_for_llm(extracted_text))>>

\* pages_to_process without the cap.
pages_to_process_NoCap(images) == images

\* pages_to_process = images[:5]
pages_to_process(images) == SubSeq(images, 1, Min(5, Len(images)))

\* content_payload of the image path: the instruction, then one item per
\* page of pages_to_process, appended in order.
ImagePayload(images) ==
    LET pages == pages_to_process(images)
    IN  <<TextItem(IMAGE_INSTRUCTION)>> \o [i \in 1..Len(pages) |-> ImageItem(pages[i])]

\* The two system prompts, by the parts the pipeline depends on: which
\* review they ask for and the fenced sentinel of their hard rule.
system_prompt(variant) ==
    [variant |-> variant, hard_rule |-> FENCE \o INVALID_RESUME_SENTINEL \o FENCE]

\* The arguments of client.chat.completions.create.
ChatRequest(variant, content_payload) ==
    [model |-> model_name,
     system |-> system_prompt(variant),
     user |-> content_payload]

(***************************************************************************)
(* Inputs                                                                  *)
(***************************************************************************)
\* Largest number of pages the renderer returns.
MaxPages == 6

Block(x0, y0, text) == [x0 |-> x0, y0 |-> y0, text |-> text]

Doc(openable, pages) == [openable |-> openable, pages |-> pages]

NoDoc == Doc(FALSE, <<>>)

\* PDFs by their text layer: unreadable, empty, blank, and texts whose
\* cleaned length lies on either side of MIN_EXTRACTED_TEXT_CHARS.
Docs ==
    { Doc(FALSE, << <<Block(0, 0, Rep("a", 60))>> >>),
      Doc(TRUE, <<>>),
      Doc(TRUE, << <<Block(0, 0, <<" ", "\n", "\t">>)>> >>),
      Doc(TRUE, << <<Block(0, 0, Rep("a", 10))>> >>),
      Doc(TRUE, << <<Block(0, 0, Rep("a", 49))>> >>),
      Doc(TRUE, << <<Block(0, 0, Rep("a", 50))>> >>),
      Doc(TRUE, << <<Block(0, 0, Rep("a", 51))>> >>),
      Doc(TRUE, << <<Block(0, 0, <<" ">> \o Rep("a", 49) \o <<" ", " ", "\n">>)>> >>),
      Doc(TRUE, << <<Block(0, 0, Rep("a", 40) \o Rep(" ", 15) \o Rep("b", 5))>> >>),
      Doc(TRUE, << <<Block(0, 2, Rep("b", 24)), Block(0, 1, Rep("a", 25))>> >>),
      Doc(TRUE, << <<Block(5, 1, Rep("b", 20)), Block(0, 1, Rep("a", 20))>>,
                   <<Block(0, 0, <<"\n", " ", "\n">> \o Rep("c", 10))>> >>) }

\* What convert_from_path does: it raises, or returns the page images.
RenderResults ==
    {Raise("PDFPageCountError"), Raise("PDFInfoNotInstalledError")}
    \cup {[tag |-> "images", val |-> [k \in 1..n |-> [page |-> k]]] : n \in 0..MaxPages}

R_FENCED_SENTINEL ==
    <<"backtick", "backtick", "backtick", "T", "h", "e", " ", "p", "r",
      "o", "v", "i", "d", "e", "d", " ", "r", "e", "s", "u", "m", "e", " ",
      "i", "s", " ", "I", "N", "V", "A", "L", "I", "D", ".", " ", "P", "l",
      "e", "a", "s", "e", " ", "p", "r", "o", "v", "i", "d", "e", " ", "a",
      " ", "v", "a", "l", "i", "d", " ", "r", "e", "s", "u", "m", "e", " ",
      "f", "o", "r", " ", "r", "e", "v", "i", "e", "w", ".", "backtick",
      "backtick", "backtick">>

R_RECASED_SENTINEL ==
    <<"S", "o", "r", "r", "y", ".", "\n", "t", "h", "e", " ", "p", "r",
      "o", "v", "i", "d", "e", "d", " ", "r", "e", "s", "u", "m", "e", " ",
      "i", "s", " ", "i", "n", "v", "a", "l", "i", "d", ".", " ", "p", "l",
      "e", "a", "s", "e", " ", "p", "r", "o", "v", "i", "d", "e", " ", "a",
      " ", "v", "a", "l", "i", "d", " ", "r", "e", "s", "u", "m", "e", " ",
      "f", "o", "r", " ", "r", "e", "v", "i", "e", "w", ".">>

R_NOT_A_RESUME ==
    <<"T", "h", "i", "s", " ", "d", "o", "c", "u", "m", "e", "n", "t", " ",
      "i", "s", " ", "d", "o", "c", "u", "m", "e", "n", "t", "a", "t", "i",
      "o", "n", ",", " ", "n", "o", "t", " ", "a", " ", "r", "e", "s", "u",
      "m", "e", ".">>

R_REVIEW ==
    <<"#", "#", "#", " ", "1", ".", " ", "E", "x", "e", "c", "u", "t", "i",
      "v", "e", " ", "S", "u", "m", "m", "a", "r", "y", " ", "&", " ", "V",
      "i", "s", "u", "a", "l", " ", "A", "u", "d", "i", "t", "\n", "*",
      "*", "A", "T", "S", "/", "V", "i", "s", "u", "a", "l", " ", "S", "c",
      "o", "r", "e", "*", "*", ":", " ", "7", "2", "\n", "#", "#", "#",
      " ", "2", ".", " ", "C", "o", "n", "t", "e", "n", "t", " ", "&", " ",
      "N", "a", "r", "r", "a", "t", "i", "v", "e", " ", "c", "r", "i", "t",
      "i", "q", "u", "e">>

R_BLANK ==
    <<" ", " ", "\n">>

R_EMPTY_FENCE ==
    <<"backtick", "backtick", "backtick", "\n", "backtick", "backtick",
      "backtick">>

\* A completion by the message contents of its choices.
Completion(choices) == [tag |-> "completion", val |-> choices]

\* What client.chat.completions.create does: it raises, or returns a
\* completion whose first choice carries the content (None or a string).
CompletionResults ==
    { Raise("APITimeoutError"),
      Raise("RateLimitError"),
      Completion(<<>>),
      Completion(<<None>>),
      Completion(<<Str(<<>>)>>),
      Completion(<<Str(R_BLANK)>>),
      Completion(<<Str(R_EMPTY_FENCE)>>),
      Completion(<<Str(INVALID_RESUME_SENTINEL)>>),
      Completion(<<Str(R_FENCED_SENTINEL)>>),
      Completion(<<Str(R_RECASED_SENTINEL)>>),
      Completion(<<Str(R_NOT_A_RESUME)>>),
      Completion(<<Str(R_REVIEW)>>) }
(***************************************************************************)
(* review_resume: exception handling                                       *)
(***************************************************************************)
\* A normal return of value v from a try block.
Return(v) == [tag |-> "return", val |-> <<v>>]

\* Python None as the value of a variable that is not yet bound.
Unbound == [tag |-> "unbound", val |-> <<>>]

\* The try block of the text path: the awaited call raised, or
\* choices[0] does not exist, or the detector rejects the content, or the
\* content is returned.
TextReviewTry(result) ==
    IF result.tag = "raise" THEN result
    ELSE IF result.val = <<>> THEN Raise("IndexError")
    ELSE LET review_content == result.val[1]
         IN  IF _is_invalid_resume_response(review_content)
             THEN Raise(InvalidResumeError)
             ELSE Return(review_content)

\* The except clauses of the text path with the first raise missing: a
\* rejection is logged and swallowed.
TextReviewExcept_SwallowsRejection(e) ==
    IF e = InvalidResumeError THEN NoExc
    ELSE e

\* The except clauses of the text path with the second raise missing: an
\* error of the call is logged and swallowed.
TextReviewExcept_FallsBack(e) ==
    IF e = InvalidResumeError THEN e
    ELSE NoExc

\* The except clauses of the text path: what they raise for exception e
\* (NoExc would mean that e is swallowed).
TextReviewExcept(e) ==
    IF e = InvalidResumeError THEN e
    ELSE e

\* The except clause around convert_from_path.
RenderExcept(e) == e

\* The try block of the image path without the detector check.
ImageReviewTry_Unchecked(result) ==
    IF result.tag = "raise" THEN result
    ELSE IF result.val = <<>> THEN Raise("IndexError")
    ELSE Return(result.val[1])

\* The try block of the image path.
ImageReviewTry(result) ==
    IF result.tag = "raise" THEN result
    ELSE IF result.val = <<>> THEN Raise("IndexError")
    ELSE LET review_content == result.val[1]
         IN  IF _is_invalid_resume_response(review_content)
             THEN Raise(InvalidResumeError)
             ELSE Return(review_content)

\* The except clauses of the image path.
ImageReviewExcept(e) ==
    IF e = InvalidResumeError THEN e
    ELSE e

\* The path condition with > for >=.
UseTextPath_Strict(extracted_text) ==
    Truthy(extracted_text) /\ Len(Strip(extracted_text.val)) > MIN_EXTRACTED_TEXT_CHARS

\* The condition that selects the text path.
UseTextPath(extracted_text) ==
    Truthy(extracted_text) /\ Len(Strip(extracted_text.val)) >= MIN_EXTRACTED_TEXT_CHARS

(***************************************************************************)
(* State                                                                   *)
(***************************************************************************)
VARIABLES
    fitz,             \* the module-level name fitz: "module", or "None" when the import failed
    pc,               \* where the coroutine review_resume is suspended
    pdf,              \* the PDF behind pdf_path
    extracted_text,   \* local of review_resume
    images,           \* local of review_resume
    content_payload,  \* local of review_resume
    completions,      \* what the awaited create calls gave, in order
    sent,             \* the requests made to the remote model, in order
    extract_calls,    \* calls of _extract_text_standard
    render_calls,     \* calls of convert_from_path
    render_result,    \* what the awaited convert_from_path gave
    returned,         \* the value review_resume returned
    raised            \* the exception review_resume raised

\* One pure method applied to one argument.
VARIABLES
    fn,               \* the method that was applied last, "input" before any
    arg,              \* its argument
    out               \* the results so far, in order

\* One request to POST /api/v1/review.
VARIABLES
    handler,          \* where the handler of app.py is: "received", "awaiting", "responded", "cancelled"
    tmp_path,         \* the temporary file: "none", "saved", "removed"
    background_tasks, \* the tasks given to add_task, in order: "pending" or "ran"
    response,         \* the HTTP response
    RESUME_REVIEWS_TOTAL  \* the counter, by status label

\* Several calls of review_resume on one event loop.
VARIABLES
    tasks,            \* per call: where the coroutine is suspended, and its locals
    loop,             \* the call whose code the event loop is running, 0 between steps
    self              \* the fields of the one ResumeReviewService

service_vars ==
    <<fitz, pc, pdf, extracted_text, images, content_payload, completions, sent,
      extract_calls, render_calls, render_result, returned, raised>>

pure_vars == <<fn, arg, out>>

http_vars == <<handler, tmp_path, background_tasks, response, RESUME_REVIEWS_TOTAL>>

conc_vars == <<tasks, loop, self>>

vars == <<service_vars, pure_vars, http_vars, conc_vars>>

\* HTTPException(status_code, detail), and the 200 response by its review.
HTTPException(status_code, detail) == [status_code |-> status_code, body |-> detail]

\* The labels of RESUME_REVIEWS_TOTAL.
StatusLabels ==
    {"failed_type", "failed_size", "failed_service", "success", "invalid_resume",
     "failed_processing"}

\* The fields that __init__ and the class body give the service.
ResumeReviewService ==
    [ MIN_EXTRACTED_TEXT_CHARS |-> MIN_EXTRACTED_TEXT_CHARS,
      MAX_TEXT_CHARS_FOR_LLM |-> MAX_TEXT_CHARS_FOR_LLM,
      api_key |-> "OPENROUTER_API_KEY",
      model_name |-> model_name,
      client |-> "AsyncOpenAI" ]

\* The parts of the state named in groups are at rest: no call of
\* review_resume is under way, no method is under test, no HTTP request
\* was received, no concurrent calls exist.
Idle(groups) ==
    /\ IF "service" \in groups
       THEN /\ fitz = "module"
            /\ pc = "idle"
            /\ pdf = NoDoc
            /\ extracted_text = Unbound
            /\ images = <<>>
            /\ content_payload = <<>>
            /\ completions = <<>>
            /\ sent = <<>>
            /\ extract_calls = 0
            /\ render_calls = 0
            /\ render_result = Unbound
            /\ returned = Unbound
            /\ raised = NoExc
       ELSE TRUE
    /\ IF "pure" \in groups
       THEN /\ fn = "none"
            /\ arg = [kind |-> "none"]
            /\ out = <<>>
       ELSE TRUE
    /\ IF "http" \in groups
       THEN /\ handler = "none"
            /\ tmp_path = "none"
            /\ background_tasks = <<>>
            /\ response = HTTPException(0, None)
            /\ RESUME_REVIEWS_TOTAL = [label \in StatusLabels |-> 0]
       ELSE TRUE
    /\ IF "conc" \in groups
       THEN /\ tasks = <<>>
            /\ loop = 0
            /\ self = ResumeReviewService
       ELSE TRUE

\* review_resume has not been called; PyMuPDF was imported or not.
ServiceInit ==
    /\ fitz \in {"module", "None"}
    /\ pc = "idle"
    /\ pdf = NoDoc
    /\ extracted_text = Unbound
    /\ images = <<>>
    /\ content_payload = <<>>
    /\ completions = <<>>
    /\ sent = <<>>
    /\ extract_calls = 0
    /\ render_calls = 0
    /\ render_result = Unbound
    /\ returned = Unbound
    /\ raised = NoExc

Init ==
    /\ Idle({"pure", "http", "conc"})
    /\ ServiceInit

(***************************************************************************)
(* review_resume, one action per stretch between two awaits                *)
(***************************************************************************)
\* The call: up to the await of _get_resume_text, which runs
\* _extract_text_standard in a worker thread.
ReviewResume(doc) ==
    /\ pc = "idle"
    /\ pdf' = doc
    /\ extract_calls' = extract_calls + 1
    /\ pc' = "ExtractText"
    /\ UNCHANGED <<pure_vars, http_vars, conc_vars>>
    /\ UNCHANGED <<fitz, extracted_text, images, content_payload, completions, sent,
                   render_calls, render_result, returned, raised>>

\* Stage 2 starts: convert_from_path is handed to a worker thread.
StartRender ==
    /\ render_calls' = render_calls + 1
    /\ pc' = "RenderImages"

\* The extraction is back.  An exception would leave review_resume, which
\* has no handler here.  Otherwise the text path builds its payload and
\* awaits the model, or Stage 2 starts.
ExtractText ==
    /\ pc = "ExtractText"
    /\ LET r == _extract_text_standard(fitz, pdf)
       IN  IF r.tag = "raise"
           THEN /\ raised' = r.val[1]
                /\ pc' = "done"
                /\ UNCHANGED <<extracted_text, content_payload, sent, render_calls>>
           ELSE /\ extracted_text' = r
                /\ IF UseTextPath(r)
                   THEN /\ content_payload' = TextPayload(r.val)
                        /\ sent' = Append(sent, ChatRequest("text", content_payload'))
                        /\ pc' = "TextReview"
                        /\ UNCHANGED render_calls
                   ELSE /\ StartRender
                        /\ UNCHANGED <<content_payload, sent>>
                /\ UNCHANGED raised
    /\ UNCHANGED <<pure_vars, http_vars, conc_vars>>
    /\ UNCHANGED <<fitz, pdf, images, completions, extract_calls, render_result, returned>>

\* TextReview that records a rejection and still hands the content back.
TextReview_ReturnsRejected(result) ==
    /\ pc = "TextReview"
    /\ completions' = Append(completions, result)
    /\ LET r == TextReviewTry(result)
       IN  IF r.tag = "return"
           THEN /\ returned' = r.val[1]
                /\ UNCHANGED raised
           ELSE /\ raised' = TextReviewExcept(r.val[1])
                /\ returned' = IF r.val[1] = InvalidResumeError
                                THEN result.val[1] ELSE returned
    /\ pc' = "done"
    /\ UNCHANGED <<pure_vars, http_vars, conc_vars>>
    /\ UNCHANGED <<fitz, pdf, extracted_text, images, content_payload, sent,
                   extract_calls, render_calls, render_result>>

\* The model call of the text path is back.
TextReview(result) ==
    /\ pc = "TextReview"
    /\ completions' = Append(completions, result)
    /\ LET r == TextReviewTry(result)
       IN  IF r.tag = "return"
           THEN /\ returned' = r.val[1]
                /\ pc' = "done"
                /\ UNCHANGED <<raised, render_calls>>
           ELSE LET e == TextReviewExcept(r.val[1])
                IN  IF e = NoExc
                    THEN /\ StartRender
                         /\ UNCHANGED <<returned, raised>>
                    ELSE /\ raised' = e
                         /\ pc' = "done"
                         /\ UNCHANGED <<returned, render_calls>>
    /\ UNCHANGED <<pure_vars, http_vars, conc_vars>>
    /\ UNCHANGED <<fitz, pdf, extracted_text, images, content_payload, sent,
                   extract_calls, render_result>>

\* RenderImages that goes back to the extraction when the rendering failed.
RenderImages_Reextracts(result) ==
    /\ pc = "RenderImages"
    /\ render_result' = result
    /\ IF result.tag = "raise" /\ extract_calls < 2
       THEN /\ extract_calls' = extract_calls + 1
            /\ pc' = "ExtractText"
            /\ UNCHANGED <<images, content_payload, sent, raised>>
       ELSE IF result.tag = "raise"
       THEN /\ raised' = RenderExcept(result.val[1])
            /\ pc' = "done"
            /\ UNCHANGED <<images, content_payload, sent, extract_calls>>
       ELSE /\ images' = result.val
            /\ content_payload' = ImagePayload(images')
            /\ sent' = Append(sent, ChatRequest("image", content_payload'))
            /\ pc' = "ImageReview"
            /\ UNCHANGED <<raised, extract_calls>>
    /\ UNCHANGED <<pure_vars, http_vars, conc_vars>>
    /\ UNCHANGED <<fitz, pdf, extracted_text, completions, render_calls, returned>>

\* RenderImages that takes a failed rendering for a PDF without pages.
RenderImages_IgnoresFailure(result) ==
    /\ pc = "RenderImages"
    /\ render_result' = result
    /\ images' = IF result.tag = "raise" THEN <<>> ELSE result.val
    /\ content_payload' = ImagePayload(images')
    /\ sent' = Append(sent, ChatRequest("image", content_payload'))
    /\ pc' = "ImageReview"
    /\ UNCHANGED <<pure_vars, http_vars, conc_vars>>
    /\ UNCHANGED <<fitz, pdf, extracted_text, completions, extract_calls, render_calls,
                   returned, raised>>

\* The rendering is back.  On success the image payload is built and the
\* model call of the image path is awaited.  Were the exception swallowed,
\* the read of the unassigned local images would raise.
RenderImages(result) ==
    /\ pc = "RenderImages"
    /\ render_result' = result
    /\ IF result.tag = "raise"
       THEN LET e == RenderExcept(result.val[1])
            IN  /\ raised' = IF e = NoExc THEN "UnboundLocalError" ELSE e
                /\ pc' = "done"
                /\ UNCHANGED <<images, content_payload, sent>>
       ELSE /\ images' = result.val
            /\ content_payload' = ImagePayload(images')
            /\ sent' = Append(sent, ChatRequest("image", content_payload'))
            /\ pc' = "ImageReview"
            /\ UNCHANGED raised
    /\ UNCHANGED <<pure_vars, http_vars, conc_vars>>
    /\ UNCHANGED <<fitz, pdf, extracted_text, completions, extract_calls, render_calls,
                   returned>>

\* ImageReview that calls the model a second time when the call raised.
ImageReview_Retry(result) ==
    /\ pc = "ImageReview"
    /\ completions' = Append(completions, result)
    /\ IF result.tag = "raise" /\ Len(sent) < 2
       THEN /\ sent' = Append(sent, ChatRequest("image", content_payload))
            /\ pc' = "ImageReview"
            /\ UNCHANGED <<returned, raised>>
       ELSE /\ LET r == ImageReviewTry(result)
               IN  IF r.tag = "return"
                   THEN /\ returned' = r.val[1]
                        /\ UNCHANGED raised
                   ELSE /\ raised' = ImageReviewExcept(r.val[1])
                        /\ UNCHANGED returned
            /\ pc' = "done"
            /\ UNCHANGED sent
    /\ UNCHANGED <<pure_vars, http_vars, conc_vars>>
    /\ UNCHANGED <<fitz, pdf, extracted_text, images, content_payload,
                   extract_calls, render_calls, render_result>>

\* The model call of the image path is back.  A swallowed exception would
\* reach the end of the function, which returns None.
ImageReview(result) ==
    /\ pc = "ImageReview"
    /\ completions' = Append(completions, result)
    /\ LET r == ImageReviewTry(result)
       IN  IF r.tag = "return"
           THEN /\ returned' = r.val[1]
                /\ UNCHANGED raised
           ELSE LET e == ImageReviewExcept(r.val[1])
                IN  IF e = NoExc
                    THEN /\ returned' = None
                         /\ UNCHANGED raised
                    ELSE /\ raised' = e
                         /\ UNCHANGED returned
    /\ pc' = "done"
    /\ UNCHANGED <<pure_vars, http_vars, conc_vars>>
    /\ UNCHANGED <<fitz, pdf, extracted_text, images, content_payload, sent,
                   extract_calls, render_calls, render_result>>

Next ==
    \/ \E doc \in Docs : ReviewResume(doc)
    \/ ExtractText
    \/ \E result \in CompletionResults : TextReview(result)
    \/ \E result \in RenderResults : RenderImages(result)
    \/ \E result \in CompletionResults : ImageReview(result)

Spec == Init /\ [][Next]_vars

\* The coroutine leaves the place where it is: the call is made, and every
\* awaited collaborator call returns or raises in the end.
Resumes ==
    /\ pc # "done"
    /\ pc' \in {"ExtractText", "TextReview", "RenderImages", "ImageReview", "done"}
    /\ pc' # pc

SpecFair == Spec /\ WF_pc(Resumes)

(***************************************************************************)
(* Outcomes of a call                                                      *)
(***************************************************************************)
\* review_resume returned (the value is the content of the model response).
Accepted == returned.tag # "unbound"

\* review_resume raised InvalidResumeError.
Rejected == raised = InvalidResumeError

\* review_resume raised another exception.
Failed == raised \notin {NoExc, InvalidResumeError}

\* The first request to the model was the text variant.
TextPathTaken == sent # <<>> /\ sent[1].system.variant = "text"

\* The create call gave a completion that has a first choice.
HasContent(result) == result.tag = "completion" /\ result.val # <<>>

\* A null, empty or whitespace-only message content.
Blank(content) == content.tag = "None" \/ Strip(content.val) = <<>>

\* The extraction cannot give a text: no PyMuPDF, an unreadable file or a
\* blank text layer.
ExtractionFails ==
    \/ fitz = "None"
    \/ ~pdf.openable
    \/ Strip(Join(<<"\n">>, FullTextParts(pdf.pages))) = <<>>

C2_PathSelection ==
    pc \notin {"idle", "ExtractText"} =>
        LET usable == /\ extracted_text.tag = "str"
                      /\ Len(Strip(extracted_text.val)) >= 50
        IN  IF usable
            THEN TextPathTaken /\ render_calls = 0
            ELSE /\ render_calls = 1
                 /\ \A i \in 1..Len(sent) : sent[i].system.variant # "text"

\* A text of exactly 50 characters went down the text path.
C2_Witness ==
    /\ pc = "TextReview"
    /\ extracted_text.tag = "str"
    /\ Len(extracted_text.val) = 50
    /\ TextPathTaken

\* C3: when a call has ended and the model gave a content, an Accepted
\* outcome returns that raw content and the detector is false on it, and a
\* content on which the detector is true gives Rejected, on both paths.
C3_SentinelGatesAcceptance ==
    (pc = "done" /\ completions # <<>> /\ HasContent(completions[Len(completions)])) =>
        LET review_content == completions[Len(completions)].val[1]
        IN  /\ Accepted => /\ returned = review_content
                           /\ ~_is_invalid_resume_response(returned)
            /\ _is_invalid_resume_response(review_content) => Rejected /\ ~Accepted

\* The fenced sentinel came back on the image path and the call ended
\* Rejected.
C3_Witness ==
    /\ pc = "done"
    /\ ~TextPathTaken
    /\ completions = <<Completion(<<Str(R_FENCED_SENTINEL)>>)>>
    /\ Rejected

\* C4: when the model gives a null, empty or whitespace-only content, the
\* detector is false on it and the call ends Failed (neither Accepted nor
\* Rejected).
C4_BlankResponseFails ==
    (pc = "done" /\ completions # <<>> /\ HasContent(completions[Len(completions)])
     /\ Blank(completions[Len(completions)].val[1])) =>
        /\ ~_is_invalid_resume_response(completions[Len(completions)].val[1])
        /\ Failed
        /\ ~Accepted
        /\ ~Rejected

\* C5: once the response of the text path is classified as a rejection, the
\* call has ended Rejected, the renderer was never called and no second
\* request went to the model.
C5_TextRejectionIsFinal ==
    (/\ TextPathTaken
     /\ completions # <<>>
     /\ HasContent(completions[1])
     /\ _is_invalid_resume_response(completions[1].val[1])) =>
        /\ pc = "done"
        /\ Rejected
        /\ render_calls = 0
        /\ Len(sent) = 1

\* A rejection on the text path.
C5_Witness ==
    /\ TextPathTaken
    /\ completions = <<Completion(<<Str(R_NOT_A_RESUME)>>)>>
    /\ Rejected
    /\ render_calls = 0

\* C6: when the model call of the text path raises, the call has ended
\* Failed with that same exception, and neither the renderer nor a second
\* model call was attempted.
C6_TextCallFailure ==
    (TextPathTaken /\ completions # <<>> /\ completions[1].tag = "raise") =>
        /\ pc = "done"
        /\ Failed
        /\ raised = completions[1].val[1]
        /\ ~Accepted
        /\ render_calls = 0
        /\ Len(sent) = 1

\* A timeout on the text path.
C6_Witness ==
    /\ TextPathTaken
    /\ completions = <<Raise("APITimeoutError")>>
    /\ raised = "APITimeoutError"

\* C7: at most one request goes to the model in a call, and exactly one
\* when the call ends Accepted or Rejected.
C7_NoRetry ==
    /\ Len(sent) <= 1
    /\ Len(completions) <= Len(sent)
    /\ (pc = "done" /\ (Accepted \/ Rejected)) => Len(sent) = 1

\* A call that ended Failed by an error of its single model call, on the
\* image path.
C7_Witness ==
    /\ pc = "done"
    /\ ~TextPathTaken
    /\ completions = <<Raise("RateLimitError")>>
    /\ Failed
    /\ Len(sent) = 1

\* C8: a request of the image variant carries the instruction item and then
\* the first min(n, 5) of the n rendered pages, encoded, in page order.
C8_ImagePayload ==
    \A k \in 1..Len(sent) :
        sent[k].system.variant = "image" =>
            /\ render_result.tag = "images"
            /\ LET n == Len(render_result.val)
                   m == IF n < 5 THEN n ELSE 5
                   p == sent[k].user
               IN  /\ Len(p) = 1 + m
                   /\ p[1] = [type |-> "text", text |-> IMAGE_INSTRUCTION]
                   /\ \A i \in 1..m :
                          /\ p[i + 1].type = "image_url"
                          /\ p[i + 1].image_url.url =
                                 <<DATA_URL_PREFIX, _encode_image(render_result.val[i])>>

\* A PDF of more than 5 pages went to the model.
C8_Witness ==
    /\ pc = "ImageReview"
    /\ render_result.tag = "images"
    /\ Len(render_result.val) > 5
    /\ Len(sent) = 1
    /\ Len(sent[1].user) = 6

\* C9: when the rendering raises, the call has ended Failed with that
\* exception and no request went to the model.
C9_RenderFailure ==
    render_result.tag = "raise" =>
        /\ pc = "done"
        /\ Failed
        /\ raised = render_result.val[1]
        /\ ~Accepted
        /\ sent = <<>>

\* A PDF with no text at all whose rendering raised.
C9_Witness ==
    /\ fitz = "module"
    /\ pdf = Doc(TRUE, <<>>)
    /\ extracted_text = None
    /\ render_result.tag = "raise"
    /\ Failed

\* C10: the extractor always comes back with None or a text, never with an
\* exception; when the extraction cannot give a text it gives None, the
\* call goes on to the renderer, and it ends Failed only if the rendering
\* or the model call failed.
C10_ExtractionRecovered ==
    pc \notin {"idle", "ExtractText"} =>
        /\ extracted_text.tag \in {"None", "str"}
        /\ ExtractionFails =>
               /\ extracted_text = None
               /\ render_calls = 1
               /\ Failed => (render_result.tag = "raise" \/ completions # <<>>)

\* An unreadable PDF was reviewed from its page images.
C10_Witness ==
    /\ fitz = "module"
    /\ ~pdf.openable
    /\ pc = "done"
    /\ Accepted
    /\ ~TextPathTaken

(***************************************************************************)
(* The pure methods on their own: inputs                                   *)
(***************************************************************************)
\* Raw page texts are all strings over four characters up to this length.
MaxRawLen == 5

\* The section headers that both system prompts require of a review.
SECTION_HEADERS ==
    { <<"#", "#", "#", " ", "1", ".", " ", "E", "x", "e", "c", "u", "t", "i",
      "v", "e", " ", "S", "u", "m", "m", "a", "r", "y", " ", "&", " ", "V",
      "i", "s", "u", "a", "l", " ", "A", "u", "d", "i", "t">>,
      <<"#", "#", "#", " ", "2", ".", " ", "C", "o", "n", "t", "e", "n", "t",
      " ", "&", " ", "N", "a", "r", "r", "a", "t", "i", "v", "e", " ", "c",
      "r", "i", "t", "i", "q", "u", "e">>,
      <<"#", "#", "#", " ", "3", ".", " ", "C", "r", "i", "t", "i", "c", "a",
      "l", " ", "O", "b", "s", "e", "r", "v", "a", "t", "i", "o", "n", "s">>,
      <<"#", "#", "#", " ", "4", ".", " ", "S", "t", "r", "a", "t", "e", "g",
      "i", "c", " ", "R", "e", "c", "o", "m", "m", "e", "n", "d", "a", "t",
      "i", "o", "n", "s", " ", "(", "T", "o", "p", " ", "3", ")">> }

\* What the model says, before any fencing: the sentinel in four letter
\* cases, reviews with every section header (a plain one and three that talk
\* about documentation, a technical manual and a table of contents), a
\* statement that the input is not a resume, a word, nothing.
Body(b) ==
    LET SENTINEL_UPPER ==
            <<"T", "H", "E", " ", "P", "R", "O", "V", "I", "D", "E", "D", " ", "R",
            "E", "S", "U", "M", "E", " ", "I", "S", " ", "I", "N", "V", "A", "L",
            "I", "D", ".", " ", "P", "L", "E", "A", "S", "E", " ", "P", "R", "O",
            "V", "I", "D", "E", " ", "A", " ", "V", "A", "L", "I", "D", " ", "R",
            "E", "S", "U", "M", "E", " ", "F", "O", "R", " ", "R", "E", "V", "I",
            "E", "W", ".">>
        SENTINEL_MIXED ==
            <<"t", "H", "E", " ", "p", "R", "O", "V", "I", "D", "E", "D", " ", "r",
            "E", "S", "U", "M", "E", " ", "I", "S", " ", "i", "n", "v", "a", "l",
            "i", "d", ".", " ", "p", "L", "E", "A", "S", "E", " ", "P", "R", "O",
            "V", "I", "D", "E", " ", "A", " ", "V", "A", "L", "I", "D", " ", "R",
            "E", "S", "U", "M", "E", " ", "F", "O", "R", " ", "R", "E", "V", "I",
            "E", "W", ".">>
        REVIEW_PLAIN ==
            <<"#", "#", "#", " ", "1", ".", " ", "E", "x", "e", "c", "u", "t", "i",
            "v", "e", " ", "S", "u", "m", "m", "a", "r", "y", " ", "&", " ", "V",
            "i", "s", "u", "a", "l", " ", "A", "u", "d", "i", "t", "\n", "*",
            "*", "A", "T", "S", "/", "V", "i", "s", "u", "a", "l", " ", "S", "c",
            "o", "r", "e", "*", "*", ":", " ", "7", "2", "\n", "#", "#", "#",
            " ", "2", ".", " ", "C", "o", "n", "t", "e", "n", "t", " ", "&", " ",
            "N", "a", "r", "r", "a", "t", "i", "v", "e", " ", "c", "r", "i", "t",
            "i", "q", "u", "e", "\n", "*", " ", " ", " ", "*", "*", "I", "m",
            "p", "a", "c", "t", " ", "A", "n", "a", "l", "y", "s", "i", "s", "*",
            "*", ":", " ", "B", "u", "l", "l", "e", "t", "s", " ", "s", "t", "a",
            "t", "e", " ", "r", "e", "s", "u", "l", "t", "s", " ", "w", "i", "t",
            "h", " ", "n", "u", "m", "b", "e", "r", "s", ".", "\n", "#", "#",
            "#", " ", "3", ".", " ", "C", "r", "i", "t", "i", "c", "a", "l", " ",
            "O", "b", "s", "e", "r", "v", "a", "t", "i", "o", "n", "s", "\n",
            "*", " ", " ", " ", "D", "a", "t", "e", "s", " ", "a", "r", "e", " ",
            "i", "n", "c", "o", "n", "s", "i", "s", "t", "e", "n", "t", ".",
            "\n", "#", "#", "#", " ", "4", ".", " ", "S", "t", "r", "a", "t",
            "e", "g", "i", "c", " ", "R", "e", "c", "o", "m", "m", "e", "n", "d",
            "a", "t", "i", "o", "n", "s", " ", "(", "T", "o", "p", " ", "3", ")",
            "\n", "1", ".", " ", " ", "*", "*", "M", "e", "t", "r", "i", "c",
            "s", "*", "*", ":", " ", "Q", "u", "a", "n", "t", "i", "f", "y", " ",
            "r", "e", "s", "u", "l", "t", "s", ".">>
        REVIEW_DOCUMENTATION ==
            <<"#", "#", "#", " ", "1", ".", " ", "E", "x", "e", "c", "u", "t", "i",
            "v", "e", " ", "S", "u", "m", "m", "a", "r", "y", " ", "&", " ", "V",
            "i", "s", "u", "a", "l", " ", "A", "u", "d", "i", "t", "\n", "*",
            "*", "A", "T", "S", "/", "V", "i", "s", "u", "a", "l", " ", "S", "c",
            "o", "r", "e", "*", "*", ":", " ", "7", "2", "\n", "#", "#", "#",
            " ", "2", ".", " ", "C", "o", "n", "t", "e", "n", "t", " ", "&", " ",
            "N", "a", "r", "r", "a", "t", "i", "v", "e", " ", "c", "r", "i", "t",
            "i", "q", "u", "e", "\n", "*", " ", " ", " ", "*", "*", "I", "m",
            "p", "a", "c", "t", " ", "A", "n", "a", "l", "y", "s", "i", "s", "*",
            "*", ":", " ", "L", "e", "d", " ", "d", "o", "c", "u", "m", "e", "n",
            "t", "a", "t", "i", "o", "n", " ", "o", "f", " ", "t", "h", "e", " ",
            "p", "a", "y", "m", "e", "n", "t", "s", " ", "A", "P", "I", ".",
            "\n", "#", "#", "#", " ", "3", ".", " ", "C", "r", "i", "t", "i",
            "c", "a", "l", " ", "O", "b", "s", "e", "r", "v", "a", "t", "i", "o",
            "n", "s", "\n", "*", " ", " ", " ", "D", "a", "t", "e", "s", " ",
            "a", "r", "e", " ", "i", "n", "c", "o", "n", "s", "i", "s", "t", "e",
            "n", "t", ".", "\n", "#", "#", "#", " ", "4", ".", " ", "S", "t",
            "r", "a", "t", "e", "g", "i", "c", " ", "R", "e", "c", "o", "m", "m",
            "e", "n", "d", "a", "t", "i", "o", "n", "s", " ", "(", "T", "o", "p",
            " ", "3", ")", "\n", "1", ".", " ", " ", "*", "*", "M", "e", "t",
            "r", "i", "c", "s", "*", "*", ":", " ", "Q", "u", "a", "n", "t", "i",
            "f", "y", " ", "r", "e", "s", "u", "l", "t", "s", ".">>
        REVIEW_MANUAL ==
            <<"#", "#", "#", " ", "1", ".", " ", "E", "x", "e", "c", "u", "t", "i",
            "v", "e", " ", "S", "u", "m", "m", "a", "r", "y", " ", "&", " ", "V",
            "i", "s", "u", "a", "l", " ", "A", "u", "d", "i", "t", "\n", "*",
            "*", "A", "T", "S", "/", "V", "i", "s", "u", "a", "l", " ", "S", "c",
            "o", "r", "e", "*", "*", ":", " ", "7", "2", "\n", "#", "#", "#",
            " ", "2", ".", " ", "C", "o", "n", "t", "e", "n", "t", " ", "&", " ",
            "N", "a", "r", "r", "a", "t", "i", "v", "e", " ", "c", "r", "i", "t",
            "i", "q", "u", "e", "\n", "*", " ", " ", " ", "*", "*", "I", "m",
            "p", "a", "c", "t", " ", "A", "n", "a", "l", "y", "s", "i", "s", "*",
            "*", ":", " ", "W", "r", "o", "t", "e", " ", "a", " ", "t", "e", "c",
            "h", "n", "i", "c", "a", "l", " ", "m", "a", "n", "u", "a", "l", " ",
            "f", "o", "r", " ", "p", "l", "a", "n", "t", " ", "o", "p", "e", "r",
            "a", "t", "o", "r", "s", ".", "\n", "#", "#", "#", " ", "3", ".",
            " ", "C", "r", "i", "t", "i", "c", "a", "l", " ", "O", "b", "s", "e",
            "r", "v", "a", "t", "i", "o", "n", "s", "\n", "*", " ", " ", " ",
            "D", "a", "t", "e", "s", " ", "a", "r", "e", " ", "i", "n", "c", "o",
            "n", "s", "i", "s", "t", "e", "n", "t", ".", "\n", "#", "#", "#",
            " ", "4", ".", " ", "S", "t", "r", "a", "t", "e", "g", "i", "c", " ",
            "R", "e", "c", "o", "m", "m", "e", "n", "d", "a", "t", "i", "o", "n",
            "s", " ", "(", "T", "o", "p", " ", "3", ")", "\n", "1", ".", " ",
            " ", "*", "*", "M", "e", "t", "r", "i", "c", "s", "*", "*", ":", " ",
            "Q", "u", "a", "n", "t", "i", "f", "y", " ", "r", "e", "s", "u", "l",
            "t", "s", ".">>
        REVIEW_CONTENTS ==
            <<"#", "#", "#", " ", "1", ".", " ", "E", "x", "e", "c", "u", "t", "i",
            "v", "e", " ", "S", "u", "m", "m", "a", "r", "y", " ", "&", " ", "V",
            "i", "s", "u", "a", "l", " ", "A", "u", "d", "i", "t", "\n", "*",
            "*", "A", "T", "S", "/", "V", "i", "s", "u", "a", "l", " ", "S", "c",
            "o", "r", "e", "*", "*", ":", " ", "7", "2", "\n", "#", "#", "#",
            " ", "2", ".", " ", "C", "o", "n", "t", "e", "n", "t", " ", "&", " ",
            "N", "a", "r", "r", "a", "t", "i", "v", "e", " ", "c", "r", "i", "t",
            "i", "q", "u", "e", "\n", "*", " ", " ", " ", "*", "*", "I", "m",
            "p", "a", "c", "t", " ", "A", "n", "a", "l", "y", "s", "i", "s", "*",
            "*", ":", " ", "T", "h", "e", " ", "p", "o", "r", "t", "f", "o", "l",
            "i", "o", " ", "l", "a", "c", "k", "s", " ", "a", " ", "t", "a", "b",
            "l", "e", " ", "o", "f", " ", "c", "o", "n", "t", "e", "n", "t", "s",
            ".", "\n", "#", "#", "#", " ", "3", ".", " ", "C", "r", "i", "t",
            "i", "c", "a", "l", " ", "O", "b", "s", "e", "r", "v", "a", "t", "i",
            "o", "n", "s", "\n", "*", " ", " ", " ", "D", "a", "t", "e", "s",
            " ", "a", "r", "e", " ", "i", "n", "c", "o", "n", "s", "i", "s", "t",
            "e", "n", "t", ".", "\n", "#", "#", "#", " ", "4", ".", " ", "S",
            "t", "r", "a", "t", "e", "g", "i", "c", " ", "R", "e", "c", "o", "m",
            "m", "e", "n", "d", "a", "t", "i", "o", "n", "s", " ", "(", "T", "o",
            "p", " ", "3", ")", "\n", "1", ".", " ", " ", "*", "*", "M", "e",
            "t", "r", "i", "c", "s", "*", "*", ":", " ", "Q", "u", "a", "n", "t",
            "i", "f", "y", " ", "r", "e", "s", "u", "l", "t", "s", ".">>
    IN  CASE b = "sentinel" -> INVALID_RESUME_SENTINEL
          [] b = "sentinel_lower" -> Lower(INVALID_RESUME_SENTINEL)
          [] b = "sentinel_upper" -> SENTINEL_UPPER
          [] b = "sentinel_mixed" -> SENTINEL_MIXED
          [] b = "review" -> REVIEW_PLAIN
          [] b = "review_documentation" -> REVIEW_DOCUMENTATION
          [] b = "review_manual" -> REVIEW_MANUAL
          [] b = "review_contents" -> REVIEW_CONTENTS
          [] b = "not_a_resume" -> R_NOT_A_RESUME
          [] b = "isn_t" -> <<"I", "t", " ", "i", "s", "n", "rsquo", "t", " ", "a", " ", "r", "e", "s", "u", "m", "e">>
          [] b = "command_reference" -> <<"a", " ", "c", "o", "m", "m", "a", "n", "d", " ", "r", "e", "f", "e", "r", "e", "n", "c", "e">>
          [] b = "resume_acute" -> <<"n", "o", "t", " ", "a", " ", "r", "e", "s", "u", "m", "e_acute">>
          [] b = "word" -> <<"o", "k">>
          [] b = "empty" -> <<>>

\* The ways a model output s comes fenced.
Wrap(layout, s) ==
    LET LANGUAGE_TAG ==
            <<"t", "e", "x", "t">>
    IN  CASE layout = "plain" -> s
          [] layout = "same_line" -> FENCE \o s \o FENCE
          [] layout = "own_lines" -> FENCE \o <<"\n">> \o s \o <<"\n">> \o FENCE
          [] layout = "language_tag" ->
                 FENCE \o LANGUAGE_TAG \o <<"\n">> \o s \o <<"\n">> \o FENCE
          [] layout = "first_line_shared" -> FENCE \o s \o <<"\n">> \o FENCE
          [] layout = "last_line_shared" -> FENCE \o <<"\n">> \o s \o FENCE
          [] layout = "padded" ->
                 <<" ", "\n">> \o FENCE \o <<"\n">> \o s \o <<"\n">> \o FENCE \o <<"\n", " ">>
          [] layout = "nested" ->
                 FENCE \o <<"\n">> \o FENCE \o <<"\n">> \o s \o <<"\n">> \o FENCE
                       \o <<"\n">> \o FENCE
          [] layout = "repeated" -> FENCE \o FENCE \o s \o FENCE \o FENCE
          [] layout = "stray" -> <<BACKTICK, " ", BACKTICK>> \o s

\* The arguments of the methods under test.  Model outputs: every body in
\* every layout.  Raw page texts: None and every string over four characters
\* up to MaxRawLen.  Extracted texts around the character budget: n - 1 times
\* "a", one "b", then k times "c".
PureInputs ==
    LET Arg(kind, layout, b, text) ==
            [kind |-> kind, layout |-> layout, body |-> b, text |-> text]
        BodyNames ==
            {"sentinel", "sentinel_lower", "sentinel_upper", "sentinel_mixed",
             "review", "review_documentation", "review_manual", "review_contents",
             "not_a_resume", "isn_t", "command_reference", "resume_acute", "word",
             "empty"}
        LayoutNames ==
            {"plain", "same_line", "own_lines", "language_tag", "first_line_shared",
             "last_line_shared", "padded", "nested", "repeated", "stray"}
        RawAlphabet == {"a", " ", "\t", "\n"}
        LlmOutputs ==
            {Arg("llm", l, b, Str(Wrap(l, Body(b)))) : l \in LayoutNames, b \in BodyNames}
        RawTexts ==
            {Arg("raw", "plain", "raw", None)}
            \cup {Arg("raw", "plain", "raw", Str(s)) :
                      s \in UNION {[1..n -> RawAlphabet] : n \in 0..MaxRawLen}}
        LongTexts ==
            {Arg("extracted", "plain", "long",
                 Str(Rep("a", n - 1) \o <<"b">> \o Rep("c", k))) :
                 n \in {1, 50, MAX_TEXT_CHARS_FOR_LLM - 1, MAX_TEXT_CHARS_FOR_LLM},
                 k \in {0, 1, 2, 50}}
    IN  LlmOutputs \cup RawTexts \cup LongTexts

\* A bool result.
Bool(b) == [tag |-> "bool", val |-> <<b>>]

(***************************************************************************)
(* The pure methods on their own: one action per method                    *)
(***************************************************************************)
InitPure ==
    /\ Idle({"service", "http", "conc"})
    /\ fn = "input"
    /\ arg \in PureInputs
    /\ out = <<>>

\* _normalize_llm_text(arg)
Normalize ==
    /\ fn = "input"
    /\ arg.kind = "llm"
    /\ fn' = "_normalize_llm_text"
    /\ out' = <<Str(_normalize_llm_text(arg.text))>>
    /\ UNCHANGED <<arg, service_vars, http_vars, conc_vars>>

\* _normalize_llm_text of the result of Normalize.
Renormalize ==
    /\ fn = "_normalize_llm_text"
    /\ Len(out) = 1
    /\ out' = Append(out, Str(_normalize_llm_text(out[1])))
    /\ UNCHANGED <<fn, arg, service_vars, http_vars, conc_vars>>

\* _is_invalid_resume_response(arg)
Detect ==
    /\ fn = "input"
    /\ arg.kind = "llm"
    /\ fn' = "_is_invalid_resume_response"
    /\ out' = <<Bool(_is_invalid_resume_response(arg.text))>>
    /\ UNCHANGED <<arg, service_vars, http_vars, conc_vars>>

\* is_invalid_resume_response(arg) of the benchmarking module, then
\* _is_invalid_resume_response(arg) of the service.
DetectCli ==
    /\ fn = "input"
    /\ arg.kind = "llm"
    /\ fn' = "is_invalid_resume_response"
    /\ out' = <<Bool(is_invalid_resume_response(arg.text)),
                Bool(_is_invalid_resume_response(arg.text))>>
    /\ UNCHANGED <<arg, service_vars, http_vars, conc_vars>>

\* _clean_text(arg); its guard  if not text  also takes None.
Clean ==
    /\ fn = "input"
    /\ arg.kind = "raw"
    /\ fn' = "_clean_text"
    /\ out' = <<Str(IF Truthy(arg.text) THEN _clean_text(arg.text.val) ELSE <<>>)>>
    /\ UNCHANGED <<arg, service_vars, http_vars, conc_vars>>

\* The text path from the extracted text arg to the payload: the truncated
\* text, then the text of the second payload item.
BuildTextPayload ==
    /\ fn = "input"
    /\ arg.kind = "extracted"
    /\ fn' = "_truncate_for_llm"
    /\ out' = <<Str(_truncate_for_llm(arg.text.val)), Str(TextPayload(arg.text.val)[2].text)>>
    /\ UNCHANGED <<arg, service_vars, http_vars, conc_vars>>

NextPure ==
    \/ Normalize
    \/ Renormalize
    \/ Detect
    \/ DetectCli
    \/ Clean
    \/ BuildTextPayload

SpecPure == InitPure /\ [][NextPure]_vars

(***************************************************************************)
(* Claims about the detector and the normalizer                            *)
(***************************************************************************)
\* C11: the detector is true on the sentinel in any letter case, bare or
\* fenced: fences on the line of the text, on their own lines, an opening
\* fence with a language tag, a fence that shares only the first or only the
\* last line with the text.
C11_FencedSentinelDetected ==
    LET FenceLayouts ==
            {"plain", "same_line", "own_lines", "language_tag", "first_line_shared",
             "last_line_shared"}
    IN  (/\ fn = "_is_invalid_resume_response"
         /\ arg.layout \in FenceLayouts
         /\ Lower(Body(arg.body)) = Lower(INVALID_RESUME_SENTINEL)) =>
            out[1].val[1] = TRUE

\* C12: the detector is false on every output that has the required section
\* headers and neither the sentinel nor a phrase that says the input is not
\* a resume (a direct statement of the detector or one of its job-application
\* phrases), whatever document types the review talks about.
C12_NoFalsePositive ==
    LET HasSectionHeaders(text) == \A h \in SECTION_HEADERS : Contains(text, h)
        SaysNotAResume(text) ==
            LET lowered == Lower(text)
                condensed == Strip(SubSpaceRuns(lowered, 1))
            IN  \/ Contains(lowered, Lower(INVALID_RESUME_SENTINEL))
                \/ Contains(condensed, P_not_a_resume)
                \/ Contains(condensed, P_not_a_resume_acute)
                \/ Contains(condensed, P_not_a_resume_acute2)
                \/ Contains(condensed, P_not_suitable)
                \/ \E k \in {1, 2, 3, 4, 5, 6, 12, 13, 14} : Search(patterns[k], lowered)
    IN  (/\ fn = "_is_invalid_resume_response"
         /\ HasSectionHeaders(arg.text.val)
         /\ ~SaysNotAResume(arg.text.val)) =>
            out[1].val[1] = FALSE

\* C13 as stated: normalizing the normalized text gives it back, for every
\* text.
C13_NormalizeIdempotent ==
    (fn = "_normalize_llm_text" /\ Len(out) = 2) => out[2] = out[1]

\* C13: normalizing the normalized text gives it back whenever the normalized
\* text is not itself enclosed in fences.
C13_NormalizeIdempotentUnfenced ==
    LET Fenced(s) == StartsWith(s, FENCE) /\ EndsWith(s, FENCE)
    IN  (fn = "_normalize_llm_text" /\ Len(out) = 2 /\ ~Fenced(out[1].val)) =>
            out[2] = out[1]

\* A fenced review was normalized twice: the first pass took the fences off,
\* the second changed nothing.
C13_Witness ==
    /\ fn = "_normalize_llm_text"
    /\ Len(out) = 2
    /\ arg.layout = "own_lines"
    /\ arg.body = "review"
    /\ out[1] = Str(Body("review"))
    /\ out[2] = out[1]

(***************************************************************************)
(* Claims about truncation and text cleaning                               *)
(***************************************************************************)
\* C14: an extracted text longer than the budget is embedded in the prompt
\* (after the header of the payload item) as its first MAX_TEXT_CHARS_FOR_LLM
\* characters followed by the truncation marker, so it ends with the marker
\* and is at most budget + marker long; a text within the budget is embedded
\* unchanged, with no marker.
C14_Truncation ==
    fn = "_truncate_for_llm" =>
        LET text == arg.text.val
            embedded == SubSeq(out[2].val, Len(RESUME_TEXT_HEADER) + 1, Len(out[2].val))
        IN  /\ StartsWith(out[2].val, RESUME_TEXT_HEADER)
            /\ embedded = out[1].val
            /\ IF Len(text) > MAX_TEXT_CHARS_FOR_LLM
               THEN /\ embedded = SubSeq(text, 1, MAX_TEXT_CHARS_FOR_LLM) \o TRUNCATION_MARKER
                    /\ EndsWith(embedded, TRUNCATION_MARKER)
                    /\ Len(embedded) <= MAX_TEXT_CHARS_FOR_LLM + Len(TRUNCATION_MARKER)
               ELSE /\ embedded = text
                    /\ ~Contains(embedded, TRUNCATION_MARKER)

\* A text one character over the budget was embedded cut to the budget, with
\* the marker after it.
C14_Witness ==
    /\ fn = "_truncate_for_llm"
    /\ Len(arg.text.val) = MAX_TEXT_CHARS_FOR_LLM + 1
    /\ Len(out[2].val) =
           Len(RESUME_TEXT_HEADER) + MAX_TEXT_CHARS_FOR_LLM + Len(TRUNCATION_MARKER)
    /\ EndsWith(out[2].val, TRUNCATION_MARKER)

\* C20: the cleaned text has no two adjacent spaces or tabs; two newlines with
\* only whitespace between them are adjacent (so there are never three newlines
\* in a row) and a blank line inside the input is still one blank line; the
\* text has no leading or trailing whitespace; None and the empty string give
\* the empty string.
C20_CleanText ==
    fn = "_clean_text" =>
        LET cleaned == out[1].val
            n == Len(cleaned)
            AllSpace(s, i, j) == \A k \in i..j : IsSpace(s[k])
            HasInnerBlankLine(s) ==
                \E i, j \in 1..Len(s) :
                    /\ i < j
                    /\ s[i] = "\n"
                    /\ s[j] = "\n"
                    /\ AllSpace(s, i + 1, j - 1)
                    /\ ~AllSpace(s, 1, i - 1)
                    /\ ~AllSpace(s, j + 1, Len(s))
        IN  /\ \A i \in 1..(n - 1) :
                   ~(cleaned[i] \in {" ", "\t"} /\ cleaned[i + 1] \in {" ", "\t"})
            /\ \A i, j \in 1..n :
                   (i < j /\ cleaned[i] = "\n" /\ cleaned[j] = "\n"
                          /\ AllSpace(cleaned, i + 1, j - 1)) => j = i + 1
            /\ (Truthy(arg.text) /\ HasInnerBlankLine(arg.text.val)) =>
                   Contains(cleaned, <<"\n", "\n">>)
            /\ n > 0 => ~IsSpace(cleaned[1]) /\ ~IsSpace(cleaned[n])
            /\ (~Truthy(arg.text)) => cleaned = <<>>

\* A text with three newlines between two letters was cleaned to the letters
\* with one blank line between them.
C20_Witness ==
    /\ fn = "_clean_text"
    /\ arg.text = Str(<<"a", "\n", "\n", "\n", "a">>)
    /\ out[1] = Str(<<"a", "\n", "\n", "a">>)

(***************************************************************************)
(* POST /api/v1/review: the handler of app.py around one call              *)
(***************************************************************************)
MAX_FILE_SIZE == 5 * 1024 * 1024

\* A request was received; resume_service has not been called.
InitHttp ==
    /\ Idle({"pure", "conc"})
    /\ ServiceInit
    /\ handler = "received"
    /\ tmp_path = "none"
    /\ background_tasks = <<>>
    /\ response = HTTPException(0, None)
    /\ RESUME_REVIEWS_TOTAL = [label \in StatusLabels |-> 0]

\* The handler up to its await: the checks of the upload and of the service,
\* then the copy into a temporary file, which NamedTemporaryFile creates
\* with delete=False before copyfileobj runs.
PostReview(content_type, size, resume_service, save) ==
    /\ handler = "received"
    /\ IF content_type # "application/pdf"
       THEN /\ RESUME_REVIEWS_TOTAL' = [RESUME_REVIEWS_TOTAL EXCEPT !["failed_type"] = @ + 1]
            /\ response' = HTTPException(400, Str(<<"Invalid file type. Only PDF is supported.">>))
            /\ handler' = "responded"
            /\ UNCHANGED tmp_path
       ELSE IF size # 0 /\ size > MAX_FILE_SIZE
       THEN /\ RESUME_REVIEWS_TOTAL' = [RESUME_REVIEWS_TOTAL EXCEPT !["failed_size"] = @ + 1]
            /\ response' = HTTPException(413, Str(<<"File too large. Maximum size is 5MB.">>))
            /\ handler' = "responded"
            /\ UNCHANGED tmp_path
       ELSE IF resume_service = "None"
       THEN /\ RESUME_REVIEWS_TOTAL' = [RESUME_REVIEWS_TOTAL EXCEPT !["failed_service"] = @ + 1]
            /\ response' = HTTPException(503, Str(<<"Service not initialized properly.">>))
            /\ handler' = "responded"
            /\ UNCHANGED tmp_path
       ELSE IF save # "saved"
       THEN /\ response' = HTTPException(500, Str(<<"Could not save uploaded file.">>))
            /\ handler' = "responded"
            /\ tmp_path' = IF save = "copy failed" THEN "saved" ELSE "none"
            /\ UNCHANGED RESUME_REVIEWS_TOTAL
       ELSE /\ tmp_path' = "saved"
            /\ handler' = "awaiting"
            /\ UNCHANGED <<response, RESUME_REVIEWS_TOTAL>>
    /\ UNCHANGED <<background_tasks, service_vars, pure_vars, conc_vars>>

\* The handler is suspended in  await resume_service.review_resume(tmp_path)
\* while the coroutine takes its steps.
AwaitReview ==
    /\ handler = "awaiting"
    /\ Next

\* PostReviewRespond whose last except clause does not schedule the cleanup.
PostReviewRespond_NoCleanupOnFailure ==
    /\ handler = "awaiting"
    /\ pc = "done"
    /\ background_tasks' = IF raised \in {NoExc, InvalidResumeError}
                            THEN Append(background_tasks, "pending")
                            ELSE background_tasks
    /\ IF raised = NoExc
       THEN /\ RESUME_REVIEWS_TOTAL' = [RESUME_REVIEWS_TOTAL EXCEPT !["success"] = @ + 1]
            /\ response' = HTTPException(200, returned)
       ELSE IF raised = InvalidResumeError
       THEN /\ RESUME_REVIEWS_TOTAL' = [RESUME_REVIEWS_TOTAL EXCEPT !["invalid_resume"] = @ + 1]
            /\ response' = HTTPException(422, Str(INVALID_RESUME_SENTINEL))
       ELSE /\ RESUME_REVIEWS_TOTAL' =
                   [RESUME_REVIEWS_TOTAL EXCEPT !["failed_processing"] = @ + 1]
            /\ response' = HTTPException(500, Str(<<raised>>))
    /\ handler' = "responded"
    /\ UNCHANGED <<tmp_path, service_vars, pure_vars, conc_vars>>

\* PostReviewRespond without the clause for InvalidResumeError: a rejection
\* falls to  except Exception.
PostReviewRespond_RejectionAs500 ==
    /\ handler = "awaiting"
    /\ pc = "done"
    /\ background_tasks' = Append(background_tasks, "pending")
    /\ IF raised = NoExc
       THEN /\ RESUME_REVIEWS_TOTAL' = [RESUME_REVIEWS_TOTAL EXCEPT !["success"] = @ + 1]
            /\ response' = HTTPException(200, returned)
       ELSE /\ RESUME_REVIEWS_TOTAL' =
                   [RESUME_REVIEWS_TOTAL EXCEPT !["failed_processing"] = @ + 1]
            /\ response' = HTTPException(500, Str(<<raised>>))
    /\ handler' = "responded"
    /\ UNCHANGED <<tmp_path, service_vars, pure_vars, conc_vars>>

\* The handler after its await: the call returned (the cleanup is scheduled,
\* the response carries the review), or raised InvalidResumeError (cleanup
\* scheduled, 422 with the sentinel), or raised another Exception (cleanup
\* scheduled, 500 with str(e)).
PostReviewRespond ==
    /\ handler = "awaiting"
    /\ pc = "done"
    /\ background_tasks' = Append(background_tasks, "pending")
    /\ IF raised = NoExc
       THEN /\ RESUME_REVIEWS_TOTAL' = [RESUME_REVIEWS_TOTAL EXCEPT !["success"] = @ + 1]
            /\ response' = HTTPException(200, returned)
       ELSE IF raised = InvalidResumeError
       THEN /\ RESUME_REVIEWS_TOTAL' = [RESUME_REVIEWS_TOTAL EXCEPT !["invalid_resume"] = @ + 1]
            /\ response' = HTTPException(422, Str(INVALID_RESUME_SENTINEL))
       ELSE /\ RESUME_REVIEWS_TOTAL' =
                   [RESUME_REVIEWS_TOTAL EXCEPT !["failed_processing"] = @ + 1]
            /\ response' = HTTPException(500, Str(<<raised>>))
    /\ handler' = "responded"
    /\ UNCHANGED <<tmp_path, service_vars, pure_vars, conc_vars>>

\* The task of the request is cancelled while review_resume is suspended in
\* one of its awaits.  asyncio.CancelledError is a BaseException: no
\* except Exception  clause of review_resume or of the handler catches it,
\* so it leaves both.
Cancel ==
    /\ handler = "awaiting"
    /\ pc \in {"ExtractText", "TextReview", "RenderImages", "ImageReview"}
    /\ raised' = "CancelledError"
    /\ pc' = "done"
    /\ handler' = "cancelled"
    /\ UNCHANGED <<fitz, pdf, extracted_text, images, content_payload, completions, sent,
                   extract_calls, render_calls, render_result, returned>>
    /\ UNCHANGED <<tmp_path, background_tasks, response, RESUME_REVIEWS_TOTAL>>
    /\ UNCHANGED <<pure_vars, conc_vars>>

\* A scheduled cleanup runs after the response: the file is removed if it
\* exists.
cleanup_temp_file ==
    /\ handler = "responded"
    /\ \E i \in 1..Len(background_tasks) :
           /\ background_tasks[i] = "pending"
           /\ background_tasks' = [background_tasks EXCEPT ![i] = "ran"]
    /\ tmp_path' = IF tmp_path = "saved" THEN "removed" ELSE tmp_path
    /\ UNCHANGED <<handler, response, RESUME_REVIEWS_TOTAL, service_vars, pure_vars, conc_vars>>

NextHttp ==
    \/ \E content_type \in {"application/pdf", "image/png"},
          size \in {0, MAX_FILE_SIZE, MAX_FILE_SIZE + 1},
          resume_service \in {"ResumeReviewService", "None"},
          save \in {"saved", "create failed", "copy failed"} :
              PostReview(content_type, size, resume_service, save)
    \/ AwaitReview
    \/ PostReviewRespond
    \/ Cancel
    \/ cleanup_temp_file

SpecHttp == InitHttp /\ [][NextHttp]_vars

C16_CancelledCleansUp ==
    handler = "cancelled" => background_tasks # <<>>

\* C17: a rejection that the detector found is raised as InvalidResumeError
\* and answered 422 with the sentinel as detail; every other error of the
\* review is answered 500 with str(e); no rejection is answered 500 and no
\* other request is answered 422.
C17_RejectedIsNotFailed ==
    /\ (/\ pc = "done"
        /\ completions # <<>>
        /\ HasContent(completions[Len(completions)])
        /\ _is_invalid_resume_response(completions[Len(completions)].val[1])) =>
            Rejected
    /\ (handler = "responded" /\ pc = "done") =>
           /\ Rejected <=> response = HTTPException(422, Str(INVALID_RESUME_SENTINEL))
           /\ Failed <=> response = HTTPException(500, Str(<<raised>>))
           /\ Accepted <=> response.status_code = 200
    /\ response.status_code = 422 => Rejected

\* A rejection of the image path was answered 422 with the sentinel.
C17_Witness ==
    /\ handler = "responded"
    /\ Rejected
    /\ ~TextPathTaken
    /\ response = HTTPException(422, Str(INVALID_RESUME_SENTINEL))

(***************************************************************************)
(* Several calls of review_resume on one event loop                        *)
(***************************************************************************)
\* Calls in flight at once.
NumRequests == 2

\* No call has started; the loop runs nothing.
InitConc ==
    /\ Idle({"service", "pure", "http"})
    /\ tasks = [r \in 1..NumRequests |->
                    [pc |-> "idle", pdf |-> NoDoc, extracted_text |-> Unbound,
                     images |-> <<>>, sent |-> <<>>, completions |-> <<>>,
                     render_result |-> Unbound, returned |-> Unbound, raised |-> NoExc]]
    /\ loop = 0
    /\ self = ResumeReviewService

\* Call r starts and hands _extract_text_standard to a worker thread.
ConcReviewResume(r, doc) ==
    /\ loop = 0
    /\ tasks[r].pc = "idle"
    /\ tasks' = [tasks EXCEPT ![r].pdf = doc, ![r].pc = "ExtractText"]
    /\ UNCHANGED <<loop, self, service_vars, pure_vars, http_vars>>

\* The extraction of call r is back: the path is chosen with the threshold
\* of self, and the text request carries the model name of self.
ConcExtractText(r) ==
    /\ loop = 0
    /\ tasks[r].pc = "ExtractText"
    /\ LET text == _extract_text_standard("module", tasks[r].pdf)
       IN  IF text.tag = "raise"
           THEN tasks' = [tasks EXCEPT ![r].raised = text.val[1], ![r].pc = "done"]
           ELSE IF Truthy(text) /\ Len(Strip(text.val)) >= self.MIN_EXTRACTED_TEXT_CHARS
           THEN tasks' = [tasks EXCEPT
                              ![r].extracted_text = text,
                              ![r].sent = <<[ChatRequest("text", TextPayload(text.val))
                                                EXCEPT !.model = self.model_name]>>,
                              ![r].pc = "TextReview"]
           ELSE tasks' = [tasks EXCEPT ![r].extracted_text = text, ![r].pc = "RenderImages"]
    /\ UNCHANGED <<loop, self, service_vars, pure_vars, http_vars>>

\* The model call of the text path of call r is back.
ConcTextReview(r, result) ==
    /\ loop = 0
    /\ tasks[r].pc = "TextReview"
    /\ LET t == TextReviewTry(result)
       IN  tasks' = [tasks EXCEPT
                         ![r].completions = Append(@, result),
                         ![r].returned = IF t.tag = "return" THEN t.val[1] ELSE @,
                         ![r].raised = IF t.tag = "return" THEN @ ELSE TextReviewExcept(t.val[1]),
                         ![r].pc = "done"]
    /\ UNCHANGED <<loop, self, service_vars, pure_vars, http_vars>>

\* ConcRenderImages that also switches the service to another model for the
\* image path.
ConcRenderImages_SwitchesModel(r, result) ==
    /\ loop = 0
    /\ tasks[r].pc = "RenderImages"
    /\ IF result.tag = "raise"
       THEN /\ tasks' = [tasks EXCEPT ![r].render_result = result,
                                      ![r].raised = RenderExcept(result.val[1]),
                                      ![r].pc = "done"]
            /\ UNCHANGED loop
       ELSE /\ tasks' = [tasks EXCEPT ![r].render_result = result,
                                      ![r].images = result.val,
                                      ![r].pc = "EncodeImages"]
            /\ loop' = r
    /\ self' = [self EXCEPT !.model_name = <<"vision">>]
    /\ UNCHANGED <<service_vars, pure_vars, http_vars>>

\* The rendering of call r is back from its worker thread.  On success the
\* coroutine goes on, on the loop, to encode the pages.
ConcRenderImages(r, result) ==
    /\ loop = 0
    /\ tasks[r].pc = "RenderImages"
    /\ IF result.tag = "raise"
       THEN /\ tasks' = [tasks EXCEPT ![r].render_result = result,
                                      ![r].raised = RenderExcept(result.val[1]),
                                      ![r].pc = "done"]
            /\ UNCHANGED loop
       ELSE /\ tasks' = [tasks EXCEPT ![r].render_result = result,
                                      ![r].images = result.val,
                                      ![r].pc = "EncodeImages"]
            /\ loop' = r
    /\ UNCHANGED <<self, service_vars, pure_vars, http_vars>>

\* Call r has run _encode_image on its pages, in the coroutine and so on the
\* loop; the image request goes out and the loop is free again.
ConcEncodeImages(r) ==
    /\ loop = r
    /\ tasks[r].pc = "EncodeImages"
    /\ tasks' = [tasks EXCEPT
                     ![r].sent = <<[ChatRequest("image", ImagePayload(tasks[r].images))
                                       EXCEPT !.model = self.model_name]>>,
                     ![r].pc = "ImageReview"]
    /\ loop' = 0
    /\ UNCHANGED <<self, service_vars, pure_vars, http_vars>>

\* The model call of the image path of call r is back.
ConcImageReview(r, result) ==
    /\ loop = 0
    /\ tasks[r].pc = "ImageReview"
    /\ LET t == ImageReviewTry(result)
       IN  tasks' = [tasks EXCEPT
                         ![r].completions = Append(@, result),
                         ![r].returned = IF t.tag = "return" THEN t.val[1] ELSE @,
                         ![r].raised = IF t.tag = "return" THEN @ ELSE ImageReviewExcept(t.val[1]),
                         ![r].pc = "done"]
    /\ UNCHANGED <<loop, self, service_vars, pure_vars, http_vars>>

\* The calls get a PDF that cannot be opened, a scan, or a PDF with a text
\* layer; the renderer raises or gives one page; the model call raises,
\* rejects or reviews.
NextConc ==
    \E r \in 1..NumRequests :
        \/ \E doc \in {Doc(FALSE, << <<Block(0, 0, Rep("a", 60))>> >>),
                       Doc(TRUE, <<>>),
                       Doc(TRUE, << <<Block(0, 0, Rep("a", 50))>> >>)} :
               ConcReviewResume(r, doc)
        \/ ConcExtractText(r)
        \/ \E result \in {Raise("APITimeoutError"),
                          Completion(<<Str(INVALID_RESUME_SENTINEL)>>),
                          Completion(<<Str(<<"o", "k">>)>>)} :
               ConcTextReview(r, result)
        \/ \E result \in {Raise("PDFPageCountError"),
                          [tag |-> "images", val |-> <<[page |-> 1]>>]} :
               ConcRenderImages(r, result)
        \/ ConcEncodeImages(r)
        \/ \E result \in {Raise("APITimeoutError"),
                          Completion(<<Str(INVALID_RESUME_SENTINEL)>>),
                          Completion(<<Str(<<"o", "k">>)>>)} :
               ConcImageReview(r, result)

SpecConc == InitConc /\ [][NextConc]_vars

\* review_resume run alone on doc with the collaborator results render and
\* completion: the path it takes and how it ends.
Alone(doc, render, completion) ==
    LET text == _extract_text_standard("module", doc)
        End(path, t) ==
            [path |-> path,
             returned |-> IF t.tag = "return" THEN t.val[1] ELSE Unbound,
             raised |-> IF t.tag = "raise" THEN t.val[1] ELSE NoExc]
    IN  IF UseTextPath(text)
        THEN LET t == TextReviewTry(completion)
             IN  End("text", IF t.tag = "raise" THEN Raise(TextReviewExcept(t.val[1])) ELSE t)
        ELSE IF render.tag = "raise" THEN End("image", Raise(RenderExcept(render.val[1])))
        ELSE LET t == ImageReviewTry(completion)
             IN  End("image", IF t.tag = "raise" THEN Raise(ImageReviewExcept(t.val[1])) ELSE t)

\* C18: no step of any call changes a field of the service, every request to
\* the model carries its model name, and every call that has ended took the
\* path and has the outcome of the same call run alone with its own PDF,
\* rendering and completion, whatever the other calls did meanwhile.
C18_RequestsIndependent ==
    /\ self = ResumeReviewService
    /\ \A r \in 1..NumRequests :
           LET t == tasks[r]
           IN  /\ \A i \in 1..Len(t.sent) : t.sent[i].model = model_name
               /\ t.pc = "done" =>
                      [path |-> IF t.sent # <<>> THEN t.sent[1].system.variant ELSE "image",
                       returned |-> t.returned,
                       raised |-> t.raised]
                      = Alone(t.pdf, t.render_result,
                              IF t.completions = <<>> THEN Unbound ELSE t.completions[1])

\* Call 2 went through the image path and was rejected while call 1, which
\* takes the text path, was waiting for the model.
C18_Witness ==
    /\ NumRequests >= 2
    /\ tasks[1].pc = "TextReview"
    /\ tasks[2].pc = "done"
    /\ tasks[2].sent # <<>>
    /\ tasks[2].sent[1].system.variant = "image"
    /\ tasks[2].raised = InvalidResumeError

\* C19: while a call is in text extraction, page rendering, page-image
\* preparation or a model call and another call is in flight, the event loop
\* is free, so that the other call can take its next step.
C19_LoopStaysFree ==
    \A r, q \in 1..NumRequests :
        (/\ r # q
         /\ tasks[r].pc \in {"ExtractText", "RenderImages", "EncodeImages", "TextReview",
                             "ImageReview"}
         /\ tasks[q].pc \notin {"idle", "done"}) =>
            loop = 0

(***************************************************************************)
(* Claims about fence stripping, termination, the two detectors, the       *)
(* counter                                                                 *)
(***************************************************************************)
\* C21: a fenced model output normalizes to the trimmed text between its
\* fences, whether the fences stand on the lines of the text or on lines of
\* their own, with or without a language tag; only a first line that is a
\* bare fence or a fence with a language tag (one word) is dropped.
C21_FenceStrippingKeepsText ==
    LET text == Body(arg.body)
        IsTag(s) == \A i \in 1..Len(s) : IsWord(s[i])
        first == IF text = <<>> THEN <<>> ELSE SplitLines(text)[1]
    IN  (/\ fn = "_normalize_llm_text"
         /\ arg.layout \in {"same_line", "own_lines", "language_tag", "first_line_shared",
                            "last_line_shared"}
         /\ arg.layout \in {"same_line", "first_line_shared"} => ~IsTag(first)) =>
            out[1].val = Strip(text)

\* The stages of review_resume in the order of the code.
Stage(at) ==
    CASE at = "idle" -> 0
      [] at = "ExtractText" -> 1
      [] at = "TextReview" -> 2
      [] at = "RenderImages" -> 3
      [] at = "ImageReview" -> 4
      [] at = "done" -> 5

\* C22: every call ends, Accepted, Rejected or Failed, after at most one
\* extraction, one rendering and one request to the model, and every step
\* takes it to a later stage.
C22_Termination ==
    /\ <>(pc = "done" /\ (Accepted \/ Rejected \/ Failed))
    /\ [](extract_calls <= 1 /\ render_calls <= 1 /\ Len(sent) <= 1)
    /\ [][Stage(pc') > Stage(pc)]_vars

\* A call ended Accepted on the image path after one extraction, one
\* rendering and one request.
C22_Witness ==
    /\ pc = "done"
    /\ Accepted
    /\ extract_calls = 1
    /\ render_calls = 1
    /\ Len(sent) = 1
    /\ sent[1].system.variant = "image"

\* C23: the benchmarking detector is no more lenient than the detector of the
\* service: on every model output where is_invalid_resume_response is true,
\* _is_invalid_resume_response is true too, and the two sentinels are the
\* same literal.
C23_CliDetectorNoMoreLenient ==
    /\ CLI_INVALID_RESUME_SENTINEL = INVALID_RESUME_SENTINEL
    /\ fn = "is_invalid_resume_response" => (out[1].val[1] => out[2].val[1])

\* Both detectors true on a review, fenced with a language tag, that names a
\* technical manual.
C23_Witness ==
    /\ fn = "is_invalid_resume_response"
    /\ arg.body = "review_manual" /\ arg.layout = "language_tag"
    /\ out[1].val[1] /\ out[2].val[1]

\* C24: a request that got its response has incremented exactly one label of
\* resume_reviews_total, the label of the way it ended: failed_type with 400,
\* failed_size with 413, failed_service with 503, success with 200,
\* invalid_resume with 422, failed_processing with 500.
C24_OneLabelPerRequest ==
    LET ended == CASE response.status_code = 400 -> "failed_type"
                   [] response.status_code = 413 -> "failed_size"
                   [] response.status_code = 503 -> "failed_service"
                   [] response.status_code = 200 -> "success"
                   [] response.status_code = 422 -> "invalid_resume"
                   [] response.status_code = 500 -> "failed_processing"
    IN  handler = "responded" =>
            RESUME_REVIEWS_TOTAL = [label \in StatusLabels |-> IF label = ended THEN 1 ELSE 0]

====
